---- MODULE Spec2Model ----
(***************************************************************************)
(* Model of py_agata.inspection: the event detectors                       *)
(* find_hypoglycemic_events, find_hyperglycemic_events and                 *)
(* find_extended_hypoglycemic_events, and number_days_of_observation.      *)
(*                                                                         *)
(* Timestamps are minutes since the first sample: data.t.values[i] is      *)
(* i * period.  A timedelta is a number of minutes; its `.seconds`         *)
(* attribute is the remainder modulo one day, as in datetime.timedelta.    *)
(* A float result that need not be an integer is a fraction [num, den];    *)
(* np.nan is the fraction 0/0.                                             *)
(***************************************************************************)
EXTENDS Integers, Sequences, FiniteSets, TLC

\* ---------------------------------------------------------------- bounds
\* longest series whose samples are enumerated exhaustively
MaxLen == 6
\* longest series of the middle family, and its number of constant runs
MidLen == 16
MidRuns == 4
\* longest series of the long family, and the most samples it has before
\* its one run of qualifying samples
LongLen == 62
LongLead == 1
\* longest series given to the by-level functions
LevelLen == 6
\* longest series given to the time_in_* functions
RangeLen == 2

\* ---------------------------------------------------------------- inputs
\* np.nan as a glucose value (never compared as a number, see Qualifies)
NaN == -1
\* distance of the non-threshold sample values from the threshold
Delta == 20
\* sample periods in minutes: 3, 2, 1, 1 and 0 samples in 15 minutes
Periods == {5, 10, 15, 24, 60}
\* the three detector functions
Detectors == {"hypo", "hyper", "ext"}
\* seconds in a day: timedelta.seconds is the remainder modulo this
SecondsPerDay == 86400

\* default value of the `th` parameter of each detector
DefaultTh(f) == CASE f = "hypo" -> 70 [] f = "hyper" -> 180 [] f = "ext" -> 54

\* EntryMinutes with the long entry window for the hyperglycemic detector too
EntryMinutes_hyper(f) == IF f = "hypo" THEN 15 ELSE 120
\* minutes a confirmed event start must last (entry window)
EntryMinutes(f) == IF f = "ext" THEN 120 ELSE 15
\* minutes the exit must last (exit window)
ExitMinutes(f) == 15

\* glucose values a sample may take around threshold h
SampleValues(h) == {NaN, h - Delta, h, h + Delta}

\* ---------------------------------------------------------------- numbers
Frac(n, d) == [num |-> n, den |-> d]
NaNF == Frac(0, 0)
IsNaNF(x) == x.den = 0
\* equality of two non-NaN fractions
FracEq(x, y) == x.num * y.den = y.num * x.den

SetMin(S) == CHOOSE x \in S : \A y \in S : x <= y
SetMax(S) == CHOOSE x \in S : \A y \in S : x >= y

RECURSIVE SumSeq(_)
SumSeq(s) == IF s = <<>> THEN 0 ELSE Head(s) + SumSeq(Tail(s))

\* np.round(num / den) for num, den > 0: round half to even
RoundHalfEven(num, den) ==
    LET q == num \div den
        r == num % den
    IN  IF 2 * r < den THEN q
        ELSE IF 2 * r > den THEN q + 1
        ELSE IF q % 2 = 0 THEN q ELSE q + 1

\* timedelta(minutes = m).seconds, m >= 0
Seconds(m) == (m * 60) % SecondsPerDay

VARIABLES
    fn,               \* the detector function that is called
    th,               \* its threshold parameter
    period,           \* minutes between two rows of data.t
    size,             \* data.glucose.values.size
    glucose,          \* data.glucose.values[0 .. t], the samples read so far
    pc,               \* "call", "loop", "done" (returned), "raised"
    raised,           \* the exception that left the function, or "none"
    sample_time, n_samples_in, n_samples_out,
    t, count, flag, temp_start_time,
    time_start, duration, time_end, mean_duration, events_per_week,
    end_index,        \* for each event, the index of data.t its duration is measured to
    caller,           \* the function that selects thresholds from the target, or "none"
    glycemic_target,  \* its glycemic_target parameter
    stage,            \* by-level: "all" or "l2", the detector call in progress
    all_events, l1, l2,  \* by-level: the three buckets of the result
    time_in,          \* the result of a time_in_* function
    below_events,     \* both directions: the result of the below-threshold detector
    nan_ind, island_i, start_tmp,            \* find_nan_islands: its locals
    short_nan, long_nan, nan_start, nan_end, \* find_nan_islands: its four outputs
    prev_nan,         \* find_nan_islands: the outputs of the previous call
    days,             \* MAGE: data.glucose.values of each calendar day
    day_d,            \* MAGE: d, the day of `for d in range(0, n_days)`
    i_turning,        \* MAGE: the turning-point indices of the day
    n_candidates,     \* MAGE: the number of turning points after step 1
    loop_i,           \* MAGE: i of the `while` of step 3
    day_results,      \* MAGE: mage_day_plus, mage_day_minus or ef_day
    index_value,      \* MAGE: the value the function returns
    time_in_ranges,   \* analyze_glucose_profile: results['time_in_ranges']
    max_gap,          \* impute_glucose: its max_gap parameter
    data_imputed,     \* impute_glucose: data_imputed.glucose.values
    first_stamp,      \* day windows: data.t of the first row, minutes since 2000-01-01
    window_n_days,    \* day windows: n_days
    day_windows,      \* day windows: for each d, the rows that `flags` selects
    r1,               \* compare_two_arms: r1, the values of a metric in arm 1
    r2,               \* compare_two_arms: r2
    is_paired,        \* compare_two_arms: its is_paired parameter
    lilliefors_p,     \* compare_two_arms: what lilliefors returns for each arm
    stats             \* compare_two_arms: stats[...][m] and the test that gave it

vars == <<fn, th, period, size, glucose, pc, raised, sample_time, n_samples_in,
          n_samples_out, t, count, flag, temp_start_time, time_start, duration,
          time_end, mean_duration, events_per_week, end_index,
          caller, glycemic_target, stage, all_events, l1, l2, time_in,
          below_events, nan_ind, island_i, start_tmp, short_nan, long_nan,
          nan_start, nan_end, prev_nan, days, day_d, i_turning, n_candidates,
          loop_i, day_results, index_value, time_in_ranges, max_gap,
          data_imputed, first_stamp, window_n_days, day_windows, r1, r2,
          is_paired, lilliefors_p, stats>>

\* the variables of the functions that are not event detectors
islandVars == <<nan_ind, island_i, start_tmp, short_nan, long_nan, nan_start,
                nan_end, prev_nan>>
mageVars == <<days, day_d, i_turning, n_candidates, loop_i, day_results,
              index_value>>
windowVars == <<first_stamp, window_n_days, day_windows>>
compareVars == <<r1, r2, is_paired, lilliefors_p, stats>>
restVars == <<time_in_ranges, max_gap, data_imputed, windowVars, compareVars>>
pureVars == <<islandVars, mageVars, restVars>>
targetVars == <<caller, glycemic_target, stage, all_events, l1, l2, time_in,
                below_events, pureVars>>
inputVars == <<fn, th, period, size, targetVars>>
scanVars == <<sample_time, n_samples_in, n_samples_out>>
resultVars == <<time_start, duration, time_end, mean_duration, events_per_week, end_index>>

\* data.t.values[i]
T(i) == i * period

\* Qualifies with the threshold counted as beyond it
Qualifies_inclusive(f, v, h) ==
    /\ v # NaN
    /\ IF f = "hyper" THEN v >= h ELSE v <= h
\* the test of the loop's first `if`: a comparison with nan is false
Qualifies(f, v, h) ==
    /\ v # NaN
    /\ IF f = "hyper" THEN v > h ELSE v < h

\* number of maximal constant runs of a sequence
RECURSIVE Runs(_)
Runs(s) ==
    IF Len(s) <= 1 THEN Len(s)
    ELSE Runs(Tail(s)) + (IF s[1] = s[2] THEN 0 ELSE 1)

\* the sizes of the series the model enumerates
Sizes == (0..MidLen) \cup {LongLen - 1, LongLen}

\* the result of a detector without event and without statistics
EmptyEvents ==
    [time_start |-> <<>>, time_end |-> <<>>, duration |-> <<>>,
     mean_duration |-> NaNF, events_per_week |-> NaNF]

\* the first samples of the maximal runs of qualifying samples
QualifyingRuns(g) ==
    {i \in 1..Len(g) :
        /\ Qualifies(fn, g[i], th)
        /\ i = 1 \/ ~Qualifies(fn, g[i - 1], th)}

\* the series the model enumerates: every series of at most MaxLen samples,
\* and the longer ones that have no missing or on-threshold sample and, up
\* to MidLen samples, at most MidRuns constant runs, beyond MidLen samples,
\* at most one run of qualifying samples, after at most LongLead samples
InputSeries(g) ==
    \/ size <= MaxLen
    \/ /\ \A i \in 1..Len(g) : g[i] \in {th - Delta, th + Delta}
       /\ IF size <= MidLen THEN Runs(g) <= MidRuns
          ELSE \A i \in QualifyingRuns(g) :
                  QualifyingRuns(g) = {i} /\ i <= LongLead + 1

\* no call of find_nan_islands yet
NoPrevNan == [called |-> FALSE, th |-> 0, short_nan |-> <<>>, long_nan |-> <<>>]
InitIslandLocals ==
    /\ nan_ind = <<>> /\ island_i = 0 /\ start_tmp = -1
    /\ short_nan = <<>> /\ long_nan = <<>> /\ nan_start = <<>> /\ nan_end = <<>>
InitMageLocals ==
    /\ day_d = 0 /\ i_turning = <<>> /\ n_candidates = 0 /\ loop_i = 0
    /\ day_results = <<>> /\ index_value = NaNF
InitWindows ==
    /\ first_stamp = 0 /\ window_n_days = 0 /\ day_windows = <<>>
NoStats == [test |-> "none", p |-> NaN, h |-> NaN]
InitCompare ==
    /\ r1 = <<>> /\ r2 = <<>> /\ is_paired = FALSE
    /\ lilliefors_p = <<NaN, NaN>> /\ stats = NoStats
InitRest ==
    /\ time_in_ranges = <<>>
    /\ max_gap = 0 /\ data_imputed = <<>>
    /\ InitWindows
    /\ InitCompare
InitPure ==
    /\ InitIslandLocals /\ prev_nan = NoPrevNan
    /\ days = <<>> /\ InitMageLocals
    /\ InitRest

\* the detector's variables before its first statement
InitScan ==
    /\ raised = "none"
    /\ sample_time = 0 /\ n_samples_in = 0 /\ n_samples_out = 0
    /\ t = -1 /\ count = 0 /\ flag = 0 /\ temp_start_time = -1
    /\ time_start = <<>> /\ duration = <<>> /\ time_end = <<>>
    /\ mean_duration = NaNF /\ events_per_week = NaNF
    /\ end_index = <<>>

\* a direct call of one of the three detectors with its default threshold
Init ==
    /\ fn \in Detectors
    /\ th = DefaultTh(fn)
    /\ period \in Periods
    /\ size \in Sizes
    /\ pc = "call"
    /\ glucose = <<>>
    /\ InitScan
    /\ caller = "none" /\ glycemic_target = "diabetes" /\ stage = "none"
    /\ all_events = EmptyEvents /\ l1 = EmptyEvents /\ l2 = EmptyEvents
    /\ time_in = NaNF
    /\ below_events = EmptyEvents
    /\ InitPure

\* ------------------------------------------------------------ the detector

\* `if data.glucose.values.size == 0: return`
ReturnEmpty ==
    /\ pc = "call" /\ size = 0
    /\ pc' = "done"
    /\ UNCHANGED <<inputVars, glucose, raised, scanVars, t, count, flag,
                   temp_start_time, resultVars>>

\* data.t.values[1] on a series of one row
RaiseIndexError ==
    /\ pc = "call" /\ size = 1
    /\ pc' = "raised" /\ raised' = "IndexError"
    /\ UNCHANGED <<inputVars, glucose, scanVars, t, count, flag,
                   temp_start_time, resultVars>>

\* sample_time and the number of samples of the entry and exit windows
StartScan ==
    /\ pc = "call" /\ size >= 2
    /\ sample_time' = Seconds(T(1) - T(0)) \div 60
    /\ n_samples_in' = RoundHalfEven(EntryMinutes(fn), sample_time')
    /\ n_samples_out' = RoundHalfEven(ExitMinutes(fn), sample_time')
    /\ pc' = "loop"
    /\ UNCHANGED <<inputVars, glucose, raised, t, count, flag,
                   temp_start_time, resultVars>>

\* StartOnQualifying that keeps the start when count is 0
StartOnQualifying_negative(c, start, now) == IF c < 0 THEN now ELSE start
\* qualifying sample: the hypothetical start time
StartOnQualifying(c, start, now) == IF c <= 0 THEN now ELSE start
\* qualifying sample: count
CountOnQualifying(c, n_in) ==
    LET c0 == IF c <= 0 THEN 0 ELSE c
    IN  IF n_in < c0 + 1 THEN n_in ELSE c0 + 1
\* qualifying sample: flag, given the updated count
FlagOnQualifying(c, fl, n_in) == IF c = n_in \/ fl = -1 THEN 1 ELSE fl
\* disqualifying sample: count
CountOnDisqualifying(c, fl, n_out) ==
    (IF fl = 0 /\ c > 0 THEN 0 ELSE IF fl = 1 THEN n_out ELSE c) - 1
\* disqualifying sample: flag
FlagOnDisqualifying(c, fl) ==
    IF fl = 0 /\ c > 0 THEN fl ELSE IF fl = 1 THEN -1 ELSE fl

\* LoopEndIndex measured to the sample that ends the countdown
LoopEndIndex_current(i, n_out) == i
\* index of data.t an event closed inside the loop is measured to
LoopEndIndex(i, n_out) == i - (n_out - 1)
\* CountdownEndIndex with the countdown added instead of subtracted
CountdownEndIndex_added(i, n_out, c) == i + (n_out - c - 1)
\* index of data.t an event in its exit countdown at the end is measured to
CountdownEndIndex(i, n_out, c) == i - (n_out - c - 1)

\* (data.t.values[e] - temp_start_time).seconds / 60
MinutesTo(e, start) == Seconds(T(e) - start) \div 60

\* the glucose values of the series the model enumerates
InputValues ==
    CASE caller = "none" -> SampleValues(th)
      [] caller = "find_hypoglycemic_events_by_level" -> {NaN, 34, 60, 90}
      [] caller = "find_hyperglycemic_events_by_level" -> {NaN, 120, 200, 270}
      [] caller = "test_find_extended_hypoglycemic_events" -> {NaN, 50, 120}
      [] OTHER -> {}

\* one iteration of `for t in range(data.glucose.values.size)`
LoopStep ==
    /\ pc = "loop" /\ t + 1 < size
    /\ \E v \in InputValues :
        LET i == t + 1
            q == Qualifies(fn, v, th)
            start == IF q THEN StartOnQualifying(count, temp_start_time, T(i))
                     ELSE temp_start_time
            c == IF q THEN CountOnQualifying(count, n_samples_in)
                 ELSE CountOnDisqualifying(count, flag, n_samples_out)
            fl == IF q THEN FlagOnQualifying(c, flag, n_samples_in)
                  ELSE FlagOnDisqualifying(count, flag)
            emit == c = 0 /\ fl = -1
            e == LoopEndIndex(i, n_samples_out)
        IN  /\ IF i < Len(glucose)
               THEN v = glucose[i + 1] /\ UNCHANGED glucose
               ELSE InputSeries(Append(glucose, v)) /\ glucose' = Append(glucose, v)
            /\ t' = i
            /\ temp_start_time' = start
            /\ count' = c
            /\ flag' = IF emit THEN 0 ELSE fl
            /\ time_start' = IF emit THEN Append(time_start, start) ELSE time_start
            /\ duration' = IF emit THEN Append(duration, MinutesTo(e, start))
                           ELSE duration
            /\ end_index' = IF emit THEN Append(end_index, e) ELSE end_index
    /\ UNCHANGED <<inputVars, pc, raised, scanVars, time_end, mean_duration,
                   events_per_week>>

\* number_days_of_observation(data): a fraction of a day, nan for no data
NumberDaysOfObservation(n) ==
    IF n = 0 THEN NaNF
    ELSE Frac(Seconds(T(n - 1) - T(0)), 60 * 60 * 24)

\* the events appended after the loop
TailStart ==
    IF (count > 0 /\ flag = -1) \/ (count = n_samples_in /\ flag = 1)
    THEN Append(time_start, temp_start_time) ELSE time_start
TailDuration ==
    IF count > 0 /\ flag = -1
    THEN Append(duration,
                MinutesTo(CountdownEndIndex(t, n_samples_out, count), temp_start_time))
    ELSE IF count = n_samples_in /\ flag = 1
    THEN Append(duration, MinutesTo(t, temp_start_time) + sample_time)
    ELSE duration
TailEndIndex ==
    IF count > 0 /\ flag = -1
    THEN Append(end_index, CountdownEndIndex(t, n_samples_out, count))
    ELSE IF count = n_samples_in /\ flag = 1
    THEN Append(end_index, t + 1)
    ELSE end_index

\* np.mean(duration), nan for no event
MeanDuration(d) == IF Len(d) = 0 THEN NaNF ELSE Frac(SumSeq(d), Len(d))

\* the statements after the loop, up to `return`
Finish ==
    /\ pc = "loop" /\ t + 1 = size
    /\ LET n_days == NumberDaysOfObservation(size)
       IN  /\ time_start' = TailStart
           /\ duration' = TailDuration
           /\ end_index' = TailEndIndex
           /\ time_end' = [k \in 1..Len(TailStart) |-> TailStart[k] + TailDuration[k]]
           /\ mean_duration' = MeanDuration(TailDuration)
           /\ IF n_days.num = 0
              THEN /\ pc' = "raised" /\ raised' = "ZeroDivisionError"
                   /\ UNCHANGED events_per_week
              ELSE /\ pc' = "done" /\ UNCHANGED raised
                   \* size / n_days * 7
                   /\ events_per_week' = Frac(Len(TailStart) * n_days.den * 7, n_days.num)
    /\ UNCHANGED <<inputVars, glucose, scanVars, t, count, flag, temp_start_time>>

Next == ReturnEmpty \/ RaiseIndexError \/ StartScan \/ LoopStep \/ Finish

Spec == Init /\ [][Next]_vars

\* ------------------------------------- functions of the glycemic target

Targets == {"diabetes", "pregnancy", "other"}
LevelFunctions ==
    {"find_hypoglycemic_events_by_level", "find_hyperglycemic_events_by_level"}
TimeInFunctions ==
    {"time_in_target", "time_in_tight_target", "time_in_hypoglycemia",
     "time_in_l1_hypoglycemia", "time_in_l2_hypoglycemia", "time_in_hyperglycemia",
     "time_in_l1_hyperglycemia", "time_in_l2_hyperglycemia"}
\* sample periods of the series given to the by-level functions
LevelPeriods == {5, 15}
\* glucose values of the series given to the time_in_* functions
RangeValues == {NaN, 50, 54, 60, 63, 67, 70, 100, 140, 160, 180, 250, 300}

\* th_l1 and th_l2 of the by-level functions: `if ... == 'diabetes' ... else`
LevelThresholds(f, target) ==
    IF f = "find_hypoglycemic_events_by_level"
    THEN IF target = "diabetes" THEN [th_l1 |-> 70, th_l2 |-> 54]
         ELSE [th_l1 |-> 63, th_l2 |-> 54]
    ELSE IF target = "diabetes" THEN [th_l1 |-> 180, th_l2 |-> 250]
         ELSE [th_l1 |-> 140, th_l2 |-> 250]

Range(lo, hi, inc_lo, inc_hi) ==
    [kind |-> "range", th_l |-> lo, th_h |-> hi,
     include_th_l |-> inc_lo, include_th_h |-> inc_hi]
Below(h) ==
    [kind |-> "below", th_l |-> h, th_h |-> h,
     include_th_l |-> TRUE, include_th_h |-> TRUE]
Above(h) ==
    [kind |-> "above", th_l |-> h, th_h |-> h,
     include_th_l |-> TRUE, include_th_h |-> TRUE]
TargetError ==
    [kind |-> "error", th_l |-> 0, th_h |-> 0,
     include_th_l |-> FALSE, include_th_h |-> FALSE]

\* the range a time_in_* function selects: `if 'diabetes' elif 'pregnancy' else raise`
TimeInThresholds(f, target) ==
    IF target \notin {"diabetes", "pregnancy"} THEN TargetError
    ELSE LET d == target = "diabetes"
         IN CASE f = "time_in_target" ->
                    IF d THEN Range(70, 180, FALSE, FALSE) ELSE Range(63, 140, FALSE, FALSE)
              [] f = "time_in_tight_target" -> Range(70, 140, FALSE, FALSE)
              [] f = "time_in_hypoglycemia" -> IF d THEN Below(70) ELSE Below(63)
              [] f = "time_in_l1_hypoglycemia" ->
                    IF d THEN Range(54, 70, FALSE, TRUE) ELSE Range(54, 63, FALSE, TRUE)
              [] f = "time_in_l2_hypoglycemia" -> Below(54)
              [] f = "time_in_hyperglycemia" -> IF d THEN Above(180) ELSE Above(140)
              [] f = "time_in_l1_hyperglycemia" ->
                    IF d THEN Range(180, 250, TRUE, FALSE) ELSE Range(140, 250, TRUE, FALSE)
              [] f = "time_in_l2_hyperglycemia" -> Above(250)

\* InRange with the threshold of a below or above range left out
InRange_open(v, r) ==
    CASE r.kind = "range" ->
            /\ IF r.include_th_l THEN v >= r.th_l ELSE v > r.th_l
            /\ IF r.include_th_h THEN v <= r.th_h ELSE v < r.th_h
      [] r.kind = "below" -> v < r.th_h
      [] r.kind = "above" -> v > r.th_l
\* the sample is in the selected range
InRange(v, r) ==
    CASE r.kind = "range" ->
            /\ IF r.include_th_l THEN v >= r.th_l ELSE v > r.th_l
            /\ IF r.include_th_h THEN v <= r.th_h ELSE v < r.th_h
      [] r.kind = "below" -> v <= r.th_h
      [] r.kind = "above" -> v >= r.th_l

\* time_in_given_range, time_in_given_below_range, time_in_given_above_range:
\* the percentage of the non-nan samples that are in the range
TimeInGiven(g, r) ==
    LET values == {i \in 1..Len(g) : g[i] # NaN}
    IN  IF values = {} THEN NaNF
        ELSE Frac(100 * Cardinality({i \in values : InRange(g[i], r)}),
                  Cardinality(values))

\* a by-level function or a time_in_* function is called
InitByTarget ==
    /\ caller \in LevelFunctions \cup TimeInFunctions
    /\ glycemic_target \in Targets
    /\ IF caller \in LevelFunctions
       THEN /\ fn = (IF caller = "find_hypoglycemic_events_by_level"
                     THEN "hypo" ELSE "hyper")
            /\ period \in LevelPeriods
            /\ size \in 0..LevelLen
            /\ glucose = <<>>
       ELSE /\ fn = "none"
            /\ period = 5
            /\ size \in 0..RangeLen
            /\ glucose \in [1..size -> RangeValues]
    /\ th = 0
    /\ pc = "target_call"
    /\ InitScan
    /\ stage = "none"
    /\ all_events = EmptyEvents /\ l1 = EmptyEvents /\ l2 = EmptyEvents
    /\ time_in = NaNF
    /\ below_events = EmptyEvents
    /\ InitPure

\* a time_in_* function, from its call to its return or raise
TimeInCall ==
    /\ pc = "target_call" /\ caller \in TimeInFunctions
    /\ LET r == TimeInThresholds(caller, glycemic_target)
       IN  IF r.kind = "error"
           THEN pc' = "raised" /\ raised' = "RuntimeError" /\ UNCHANGED time_in
           ELSE pc' = "target_done" /\ time_in' = TimeInGiven(glucose, r)
                /\ UNCHANGED raised
    /\ UNCHANGED <<fn, th, period, size, glucose, scanVars, t, count, flag,
                   temp_start_time, resultVars, caller, glycemic_target, stage,
                   all_events, l1, l2, below_events, pureVars>>

\* by-level: the thresholds and the call of the detector with th_l1
LevelCall ==
    /\ pc = "target_call" /\ caller \in LevelFunctions
    /\ th' = LevelThresholds(caller, glycemic_target).th_l1
    /\ stage' = "all"
    /\ pc' = "call"
    /\ UNCHANGED <<fn, period, size, glucose, raised, scanVars, t, count, flag,
                   temp_start_time, resultVars, caller, glycemic_target,
                   all_events, l1, l2, time_in, below_events, pureVars>>

\* the dictionary a detector returns
ReturnedEvents ==
    [time_start |-> time_start, time_end |-> time_end, duration |-> duration,
     mean_duration |-> mean_duration, events_per_week |-> events_per_week]

\* by-level: the detector returned the all-events bucket; call it with th_l2
LevelSecondCall ==
    /\ pc = "done" /\ stage = "all"
    /\ all_events' = ReturnedEvents
    /\ th' = LevelThresholds(caller, glycemic_target).th_l2
    /\ stage' = "l2"
    /\ pc' = "call"
    /\ sample_time' = 0 /\ n_samples_in' = 0 /\ n_samples_out' = 0
    /\ t' = -1 /\ count' = 0 /\ flag' = 0 /\ temp_start_time' = -1
    /\ time_start' = <<>> /\ duration' = <<>> /\ time_end' = <<>>
    /\ mean_duration' = NaNF /\ events_per_week' = NaNF
    /\ end_index' = <<>>
    /\ UNCHANGED <<fn, period, size, glucose, raised, caller, glycemic_target,
                   l1, l2, time_in, below_events, pureVars>>

\* Excluded that flags every earlier all-events start, not the last one
Excluded_every(all_start, l2_start) ==
    {i \in 1..Len(all_start) :
        \E h \in 1..Len(l2_start) : all_start[i] < l2_start[h]}
\* the all-events indices flagged False: for each level-2 start, the last
\* all-events start that is strictly earlier
Excluded(all_start, l2_start) ==
    {SetMax({i \in 1..Len(all_start) : all_start[i] < l2_start[h]}) :
        h \in {h \in 1..Len(l2_start) :
                  \E i \in 1..Len(all_start) : all_start[i] < l2_start[h]}}

\* seq[flag_l1_events]: the elements whose index is not in X
RECURSIVE Keep(_, _, _)
Keep(seq, X, i) ==
    IF i > Len(seq) THEN <<>>
    ELSE (IF i \in X THEN <<>> ELSE <<seq[i]>>) \o Keep(seq, X, i + 1)

\* by-level: the detector returned the l2 bucket; build the l1 bucket
LevelCombine ==
    /\ pc = "done" /\ stage = "l2"
    /\ LET X == Excluded(all_events.time_start, time_start)
           l1_start == Keep(all_events.time_start, X, 1)
           l1_duration == Keep(all_events.duration, X, 1)
           n_days == NumberDaysOfObservation(size)
       IN  /\ l2' = ReturnedEvents
           /\ IF ~IsNaNF(n_days) /\ n_days.num = 0
              THEN pc' = "raised" /\ raised' = "ZeroDivisionError" /\ UNCHANGED l1
              ELSE /\ pc' = "target_done" /\ UNCHANGED raised
                   /\ l1' = [time_start |-> l1_start,
                             time_end |-> Keep(all_events.time_end, X, 1),
                             duration |-> l1_duration,
                             mean_duration |-> MeanDuration(l1_duration),
                             events_per_week |->
                                IF IsNaNF(n_days) THEN NaNF
                                ELSE Frac(Len(l1_start) * n_days.den * 7, n_days.num)]
    /\ stage' = "done"
    /\ UNCHANGED <<fn, th, period, size, glucose, scanVars, t, count, flag,
                   temp_start_time, resultVars, caller, glycemic_target,
                   all_events, time_in, below_events, pureVars>>

NextByTarget == TimeInCall \/ LevelCall \/ LevelSecondCall \/ LevelCombine \/ Next

SpecByTarget == InitByTarget /\ [][NextByTarget]_vars

\* ------------------------------ analyze_glucose_profile: the time in ranges

\* longest series given to analyze_glucose_profile
ProfileLen == 2
\* the time_in_* functions in the order analyze_glucose_profile calls them
ProfileMetrics ==
    <<"time_in_target", "time_in_tight_target", "time_in_hypoglycemia",
      "time_in_l1_hypoglycemia", "time_in_l2_hypoglycemia", "time_in_hyperglycemia",
      "time_in_l1_hyperglycemia", "time_in_l2_hyperglycemia">>

\* Agata(glycemic_target).analyze_glucose_profile(data) reaches the time fields
InitProfile ==
    /\ caller = "analyze_glucose_profile"
    /\ glycemic_target \in Targets
    /\ fn = "none" /\ th = 0
    /\ period = 5
    /\ size \in 0..ProfileLen
    /\ glucose \in [1..size -> RangeValues]
    /\ pc = "profile"
    /\ InitScan
    /\ stage = "none"
    /\ all_events = EmptyEvents /\ l1 = EmptyEvents /\ l2 = EmptyEvents
    /\ time_in = NaNF
    /\ below_events = EmptyEvents
    /\ InitPure

\* results['time_in_ranges'][name] = name(data, self.glycemic_target), for
\* the next name of the list
ProfileCall ==
    /\ pc = "profile"
    /\ LET m == ProfileMetrics[Len(time_in_ranges) + 1]
           r == TimeInThresholds(m, glycemic_target)
       IN  IF r.kind = "error"
           THEN pc' = "raised" /\ raised' = "RuntimeError"
                /\ UNCHANGED <<time_in, time_in_ranges>>
           ELSE /\ time_in' = TimeInGiven(glucose, r)
                /\ time_in_ranges' = Append(time_in_ranges, time_in')
                /\ pc' = IF Len(time_in_ranges') = Len(ProfileMetrics)
                         THEN "profile_done" ELSE "profile"
                /\ UNCHANGED raised
    /\ UNCHANGED <<fn, th, period, size, glucose, scanVars, t, count, flag,
                   temp_start_time, resultVars, caller, glycemic_target, stage,
                   all_events, l1, l2, below_events, islandVars, mageVars,
                   max_gap, data_imputed, windowVars, compareVars>>

NextProfile == ProfileCall

SpecProfile == InitProfile /\ [][NextProfile]_vars

\* ------------------------------------ both directions on the same series

\* longest series given to the two detectors in turn
PairLen == 5
\* thresholds given to the two detectors
PairThresholds == {70, 180}

\* find_hypoglycemic_events(data, th) is called; find_hyperglycemic_events
\* (data, th) will be called on the same data with the same th
InitBothDirections ==
    /\ fn = "hypo"
    /\ th \in PairThresholds
    /\ period \in Periods
    /\ size \in 0..PairLen
    /\ pc = "call"
    /\ glucose = <<>>
    /\ InitScan
    /\ caller = "none" /\ glycemic_target = "diabetes" /\ stage = "below"
    /\ all_events = EmptyEvents /\ l1 = EmptyEvents /\ l2 = EmptyEvents
    /\ time_in = NaNF
    /\ below_events = EmptyEvents
    /\ InitPure

\* the below-threshold detector returned; call the above-threshold one
SecondDirection ==
    /\ pc = "done" /\ stage = "below"
    /\ below_events' = ReturnedEvents
    /\ fn' = "hyper"
    /\ stage' = "above"
    /\ pc' = "call"
    /\ sample_time' = 0 /\ n_samples_in' = 0 /\ n_samples_out' = 0
    /\ t' = -1 /\ count' = 0 /\ flag' = 0 /\ temp_start_time' = -1
    /\ time_start' = <<>> /\ duration' = <<>> /\ time_end' = <<>>
    /\ mean_duration' = NaNF /\ events_per_week' = NaNF
    /\ end_index' = <<>>
    /\ UNCHANGED <<th, period, size, glucose, raised, caller, glycemic_target,
                   all_events, l1, l2, time_in, pureVars>>

NextBothDirections == SecondDirection \/ Next

SpecBothDirections == InitBothDirections /\ [][NextBothDirections]_vars

\* ------------------------- the series of test_find_extended_hypoglycemic_events

\* number of samples of the test series: 425 minutes, one every 5 minutes
FixtureLen == 85
FixturePeriod == 5
\* thresholds the test calls the detector with: the default and th=45.
FixtureThresholds == {54, 45}

\* the series with events: index k counted from 0, later assignments of the
\* test override earlier ones
EventsFixture ==
    [j \in 1..FixtureLen |->
        LET k == j - 1
        IN  IF k = 80 THEN NaN
            ELSE IF k \in 79..81 \/ k \in 75..77 \/ k \in 69..71 \/ k \in 61..62 THEN 50
            ELSE IF k \in 31..32 THEN NaN
            ELSE IF k \in 29..59 \/ k \in 9..12 THEN 50
            ELSE 120]
\* the series without events
FlatFixture == [j \in 1..FixtureLen |-> 120]
\* the two "last entry" series: below the threshold from index `from` to
\* index from + 29
LastEntryFixture(from) ==
    [j \in 1..FixtureLen |->
        LET k == j - 1
        IN  IF k \in from..(from + 29) /\ k < FixtureLen THEN 50
            ELSE IF k \in 31..32 THEN NaN
            ELSE 120]
Fixtures ==
    {EventsFixture, FlatFixture, LastEntryFixture(54), LastEntryFixture(55), <<>>}

\* the test calls find_extended_hypoglycemic_events on one of its series
InitFixture ==
    /\ fn = "ext"
    /\ th \in FixtureThresholds
    /\ period = FixturePeriod
    /\ glucose \in Fixtures
    /\ size = Len(glucose)
    /\ pc = "call"
    /\ InitScan
    /\ caller = "test_find_extended_hypoglycemic_events"
    /\ glycemic_target = "diabetes" /\ stage = "none"
    /\ all_events = EmptyEvents /\ l1 = EmptyEvents /\ l2 = EmptyEvents
    /\ time_in = NaNF
    /\ below_events = EmptyEvents
    /\ InitPure

NextFixture == ReturnEmpty \/ StartScan \/ LoopStep \/ Finish

SpecFixture == InitFixture /\ [][NextFixture]_vars

\* -------------------------------------------------------- find_nan_islands

\* longest series given to find_nan_islands
IslandLen == 6
\* values of its `th` parameter
IslandThresholds == (-1)..(IslandLen + 1)

\* np.where(np.isnan(glucose))[0]: the indices (from 0) of the nan samples
RECURSIVE NanInd(_, _)
NanInd(g, k) ==
    IF k > Len(g) THEN <<>>
    ELSE (IF g[k] = NaN THEN <<k - 1>> ELSE <<>>) \o NanInd(g, k + 1)

\* np.arange(a, b + 1)
Arange(a, b) == [k \in 1..(b - a + 1) |-> a + k - 1]

\* IslandBreak that ends an island at every nan sample
IslandBreak_every(prev, cur) == cur > prev
\* `nan_ind[i] > nan_ind[i-1] + 1`: a present sample lies between the two
IslandBreak(prev, cur) == cur > prev + 1

\* IsLong with the threshold excluded from the long islands
IsLong_strict(first, last, h) == (last - first + 1) > h
\* `(nan_end[-1] - nan_start[-1] + 1) >= th`
IsLong(first, last, h) == (last - first + 1) >= h

\* find_nan_islands(data, th) is called
InitIslands ==
    /\ fn = "find_nan_islands"
    /\ th \in IslandThresholds
    /\ period = 5
    /\ size \in 0..IslandLen
    /\ glucose \in [1..size -> {NaN, 100}]
    /\ pc = "island_call"
    /\ InitScan
    /\ caller = "none" /\ glycemic_target = "diabetes" /\ stage = "none"
    /\ all_events = EmptyEvents /\ l1 = EmptyEvents /\ l2 = EmptyEvents
    /\ time_in = NaNF
    /\ below_events = EmptyEvents
    /\ InitPure

\* what find_nan_islands leaves alone
islandFrame ==
    <<fn, period, size, glucose, raised, scanVars, t, count, flag,
      temp_start_time, resultVars, caller, glycemic_target, stage, all_events,
      l1, l2, time_in, below_events, mageVars, restVars>>

\* from the call to a return (no or one nan sample) or to the loop
IslandCall ==
    /\ pc = "island_call"
    /\ LET ind == NanInd(glucose, 1)
       IN  /\ nan_ind' = ind
           /\ IF Len(ind) = 0
              THEN /\ pc' = "island_done"
                   /\ UNCHANGED <<short_nan, long_nan, nan_start, nan_end, start_tmp>>
              ELSE IF Len(ind) = 1
              THEN /\ pc' = "island_done"
                   /\ short_nan' = IF th <= 1 THEN <<>> ELSE <<ind[1]>>
                   /\ long_nan' = IF th <= 1 THEN <<ind[1]>> ELSE <<>>
                   /\ nan_start' = <<ind[1]>>
                   /\ nan_end' = <<ind[1]>>
                   /\ UNCHANGED start_tmp
              ELSE /\ pc' = "island_loop"
                   /\ start_tmp' = ind[1]
                   /\ UNCHANGED <<short_nan, long_nan, nan_start, nan_end>>
    /\ UNCHANGED <<th, island_i, prev_nan, islandFrame>>

\* one iteration of `for i in range(1, len(nan_ind))`
IslandLoopStep ==
    /\ pc = "island_loop" /\ island_i + 1 < Len(nan_ind)
    /\ LET i == island_i + 1
       IN  /\ island_i' = i
           /\ IF IslandBreak(nan_ind[i], nan_ind[i + 1])
              THEN /\ nan_start' = Append(nan_start, start_tmp)
                   /\ nan_end' = Append(nan_end, nan_ind[i])
                   /\ IF IsLong(start_tmp, nan_ind[i], th)
                      THEN /\ long_nan' = long_nan \o Arange(start_tmp, nan_ind[i])
                           /\ UNCHANGED short_nan
                      ELSE /\ short_nan' = short_nan \o Arange(start_tmp, nan_ind[i])
                           /\ UNCHANGED long_nan
                   /\ start_tmp' = nan_ind[i + 1]
              ELSE UNCHANGED <<nan_start, nan_end, short_nan, long_nan, start_tmp>>
    /\ UNCHANGED <<th, pc, nan_ind, prev_nan, islandFrame>>

\* the last island, after the loop, and the return
IslandFinish ==
    /\ pc = "island_loop" /\ island_i + 1 = Len(nan_ind)
    /\ LET last == nan_ind[island_i + 1]
       IN  /\ nan_start' = Append(nan_start, start_tmp)
           /\ nan_end' = Append(nan_end, last)
           /\ IF IsLong(start_tmp, last, th)
              THEN /\ long_nan' = long_nan \o Arange(start_tmp, last)
                   /\ UNCHANGED short_nan
              ELSE /\ short_nan' = short_nan \o Arange(start_tmp, last)
                   /\ UNCHANGED long_nan
    /\ pc' = "island_done"
    /\ UNCHANGED <<th, nan_ind, island_i, start_tmp, prev_nan, islandFrame>>

\* find_nan_islands is called again on the same data with a larger th
IslandCallAgain ==
    /\ pc = "island_done"
    /\ \E h \in IslandThresholds : h > th /\ th' = h
    /\ prev_nan' = [called |-> TRUE, th |-> th, short_nan |-> short_nan,
                    long_nan |-> long_nan]
    /\ nan_ind' = <<>> /\ island_i' = 0 /\ start_tmp' = -1
    /\ short_nan' = <<>> /\ long_nan' = <<>> /\ nan_start' = <<>> /\ nan_end' = <<>>
    /\ pc' = "island_call"
    /\ UNCHANGED islandFrame

NextIslands == IslandCall \/ IslandLoopStep \/ IslandFinish \/ IslandCallAgain

SpecIslands == InitIslands /\ [][NextIslands]_vars

\* ----------------------------------------------------------- impute_glucose

\* longest series given to impute_glucose
ImputeLen == 5
\* values of its max_gap parameter, in minutes, and sample periods
MaxGaps == {5, 10, 13, 15}
ImputePeriods == {5, 10}
\* glucose values of its series
ImputeValues == {NaN, 100, 130}

\* impute_glucose(data, max_gap) is called
InitImpute ==
    /\ caller = "impute_glucose"
    /\ fn = "none" /\ th = 0
    /\ period \in ImputePeriods
    /\ size \in 0..ImputeLen
    /\ glucose \in [1..size -> ImputeValues]
    /\ pc = "impute_call"
    /\ InitScan
    /\ glycemic_target = "diabetes" /\ stage = "none"
    /\ all_events = EmptyEvents /\ l1 = EmptyEvents /\ l2 = EmptyEvents
    /\ time_in = NaNF
    /\ below_events = EmptyEvents
    /\ InitIslandLocals /\ prev_nan = NoPrevNan
    /\ days = <<>> /\ InitMageLocals
    /\ time_in_ranges = <<>>
    /\ max_gap \in MaxGaps /\ data_imputed = <<>>
    /\ InitWindows
    /\ InitCompare

\* the sample time (total_seconds, no wrap) and the call of find_nan_islands
\* with th = int(np.round(max_gap / sample_time)); data.t.values[1] (or [0])
\* of a series of fewer than two rows raises
ImputeCall ==
    /\ pc = "impute_call"
    /\ IF size < 2
       THEN /\ pc' = "raised" /\ raised' = "IndexError"
            /\ UNCHANGED <<sample_time, th>>
       ELSE /\ sample_time' = T(1) - T(0)
            /\ th' = RoundHalfEven(max_gap, sample_time')
            /\ pc' = "island_call"
            /\ UNCHANGED raised
    /\ UNCHANGED <<fn, period, size, glucose, n_samples_in, n_samples_out, t,
                   count, flag, temp_start_time, resultVars, caller,
                   glycemic_target, stage, all_events, l1, l2, time_in,
                   below_events, pureVars>>

\* idxs[~np.isnan(data.glucose.values)]: the indices (from 0) of the samples
PresentIdx(g) == {k \in 0..(Len(g) - 1) : g[k + 1] # NaN}

\* interp1d(x, y, kind='linear')(k) for k inside the range of x: on the line
\* between the sample before and the sample after index k
Interp1d(g, k) ==
    LET a == SetMax({j \in PresentIdx(g) : j <= k})
        b == SetMin({j \in PresentIdx(g) : j >= k})
    IN  IF a = b THEN Frac(g[a + 1], 1)
        ELSE Frac(g[a + 1] * (b - a) + (g[b + 1] - g[a + 1]) * (k - a), b - a)

\* short_nan is the float array np.array([]) (no nan sample, or one nan
\* sample and th <= 1): find_nan_islands casts to int only after its loop
FloatIndex(ind, h) == Len(ind) = 0 \/ (Len(ind) = 1 /\ h <= 1)

\* index k is inside the interpolation range (interp1d: bounds_error)
InRangeOfX(g, k) == SetMin(PresentIdx(g)) <= k /\ k <= SetMax(PresentIdx(g))

\* find_nan_islands returned: interp1d on the samples, its evaluation at
\* short_nan and the assignment data_imputed.glucose.values[short_nan] = ...
ImputeFinish ==
    /\ pc = "island_done" /\ caller = "impute_glucose"
    /\ IF PresentIdx(glucose) = {}
       THEN \* interp1d: x and y arrays must have at least 1 entries
            pc' = "raised" /\ raised' = "ValueError" /\ UNCHANGED data_imputed
       ELSE IF \E j \in 1..Len(short_nan) : ~InRangeOfX(glucose, short_nan[j])
       THEN \* a value in x_new is below or above the interpolation range
            pc' = "raised" /\ raised' = "ValueError" /\ UNCHANGED data_imputed
       ELSE IF FloatIndex(nan_ind, th)
       THEN \* arrays used as indices must be of integer (or boolean) type
            pc' = "raised" /\ raised' = "IndexError" /\ UNCHANGED data_imputed
       ELSE /\ data_imputed' =
                  [j \in 1..size |->
                      IF \E h \in 1..Len(short_nan) : short_nan[h] = j - 1
                      THEN Interp1d(glucose, j - 1)
                      ELSE IF glucose[j] = NaN THEN NaNF ELSE Frac(glucose[j], 1)]
            /\ pc' = "impute_done" /\ UNCHANGED raised
    /\ UNCHANGED <<fn, th, period, size, glucose, scanVars, t, count, flag,
                   temp_start_time, resultVars, caller, glycemic_target, stage,
                   all_events, l1, l2, time_in, below_events, islandVars,
                   mageVars, time_in_ranges, max_gap, windowVars, compareVars>>

NextImpute ==
    ImputeCall \/ IslandCall \/ IslandLoopStep \/ IslandFinish \/ ImputeFinish

SpecImpute == InitImpute /\ [][NextImpute]_vars

\* ------------------------------ mage_plus_index, mage_minus_index, ef_index

\* most samples of a calendar day, and most calendar days of a series
DayLen == 5
MaxDays == 2
\* `if n > 3`: the most samples of a day without turning points
ShortDay == 3
\* glucose values of a day with more than 3 samples, and of a shorter day
DayValues == {NaN, 100, 140, 220}
ShortDayValues == {140}
\* the days with more than 3 samples, and the shorter days
LongDays == UNION {[1..k -> DayValues] : k \in (ShortDay + 1)..DayLen}
ShortDays ==
    UNION {[1..k -> ShortDayValues] : k \in 1..ShortDay} \cup {<<NaN, NaN>>}
\* the series the model enumerates: days of 3 or fewer samples, or one day
\* with more samples that has such a day before it, after it, or both
MageSeriesOf(n) ==
    [1..n -> ShortDays]
    \cup {[k \in 1..n |-> IF k = pos THEN x ELSE sh[k]] :
            pos \in {k \in 1..n : \A j \in 2..(n - 1) : j = k}, x \in LongDays,
            sh \in [1..n -> ShortDays]}
MageSeries == UNION {MageSeriesOf(n) : n \in 1..MaxDays}
MageFunctions == {"mage_plus_index", "mage_minus_index", "ef_index"}
\* ef_th of ef_index
EfTh == 75

\* day_data[k], k counted from 0
At(x, k) == x[k + 1]
\* a < b on floats: false when one of them is nan
Less(a, b) == a # NaN /\ b # NaN /\ a < b

\* scipy.signal.find_peaks(sign * x)[0]: the midpoints of the plateaus that
\* are strictly above both neighbours; up = TRUE for x, FALSE for -x
Below2(a, b, up) == IF up THEN Less(a, b) ELSE Less(b, a)
RECURSIVE Ahead(_, _, _)
Ahead(x, ia, i) ==
    IF ia < Len(x) - 1 /\ At(x, ia) # NaN /\ At(x, ia) = At(x, i)
    THEN Ahead(x, ia + 1, i) ELSE ia
RECURSIVE FindPeaks(_, _, _)
FindPeaks(x, i, up) ==
    IF i >= Len(x) - 1 THEN {}
    ELSE IF Below2(At(x, i - 1), At(x, i), up)
         THEN LET ia == Ahead(x, i + 1, i)
              IN  IF Below2(At(x, ia), At(x, i), up)
                  THEN {(i + ia - 1) \div 2} \cup FindPeaks(x, ia + 1, up)
                  ELSE FindPeaks(x, i + 1, up)
         ELSE FindPeaks(x, i + 1, up)

\* a set of indices as an increasing sequence (np.union1d sorts)
RECURSIVE Sorted(_)
Sorted(S) == IF S = {} THEN <<>> ELSE <<SetMin(S)>> \o Sorted(S \ {SetMin(S)})

\* step 1: the two ends of the day and its local maxima and minima
Candidates(x) ==
    Sorted({0, Len(x) - 1} \cup FindPeaks(x, 1, TRUE) \cup FindPeaks(x, 1, FALSE))

\* abs(a - b) < np.nanstd(x, ddof=1): with m values that are not nan,
\* (a - b)^2 < (m * sum(v^2) - sum(v)^2) / (m * (m - 1)); false for nan
Present(x) == {k \in 1..Len(x) : x[k] # NaN}
RECURSIVE SumOver(_, _, _)
SumOver(x, K, sq) ==
    IF K = {} THEN 0
    ELSE LET k == CHOOSE k \in K : TRUE
         IN  (IF sq THEN x[k] * x[k] ELSE x[k]) + SumOver(x, K \ {k}, sq)
Near(a, b, x) ==
    LET m == Cardinality(Present(x))
        s1 == SumOver(x, Present(x), FALSE)
        s2 == SumOver(x, Present(x), TRUE)
    IN  /\ a # NaN /\ b # NaN /\ m >= 2
        /\ (a - b) * (a - b) * m * (m - 1) < m * s2 - s1 * s1

\* q[to_be_kept]: the elements of q whose position (from 1) is in K
RECURSIVE Select(_, _, _)
Select(q, K, k) ==
    IF k > Len(q) THEN <<>>
    ELSE (IF k \in K THEN <<q[k]>> ELSE <<>>) \o Select(q, K, k + 1)

\* KeepStep2 with the test of step 4: near either neighbour
KeepStep2_either(it, x) ==
    {k \in 1..Len(it) :
        \/ k = 1 \/ k = Len(it)
        \/ ~(\/ Near(At(x, it[k]), At(x, it[k - 1]), x)
             \/ Near(At(x, it[k + 1]), At(x, it[k]), x))}
\* step 2: an inner point is removed when it is near both its neighbours
KeepStep2(it, x) ==
    {k \in 1..Len(it) :
        \/ k = 1 \/ k = Len(it)
        \/ ~(/\ Near(At(x, it[k]), At(x, it[k - 1]), x)
             /\ Near(At(x, it[k + 1]), At(x, it[k]), x))}

\* np.nanargmin(x[lo:hi + 1]) + lo and np.nanargmax(x[lo:hi + 1]) + lo:
\* the first index of the least (greatest) value that is not nan
ArgMin(x, lo, hi) ==
    SetMin({k \in lo..hi : At(x, k) # NaN /\
               \A j \in lo..hi : At(x, j) # NaN => At(x, k) <= At(x, j)})
ArgMax(x, lo, hi) ==
    SetMin({k \in lo..hi : At(x, k) # NaN /\
               \A j \in lo..hi : At(x, j) # NaN => At(x, k) >= At(x, j)})

\* Delete that moves the points after k down and keeps the length
Delete_shift(q, k) ==
    [j \in 1..Len(q) |-> IF j < k THEN q[j] ELSE IF j < Len(q) THEN q[j + 1] ELSE q[j]]
\* Delete that removes nothing
Delete_none(q, k) == q
\* np.delete(q, k), k counted from 1
Delete(q, k) == [j \in 1..(Len(q) - 1) |-> IF j < k THEN q[j] ELSE q[j + 1]]

\* Step3Kind with a slope of 0 counted as a slope of either sign
Step3Kind_weak(it, i, x) ==
    LET prev == it[i]
        curr == it[i + 1]
        next == it[i + 2]
    IN  IF ~Less(At(x, prev), At(x, curr)) /\ ~Less(At(x, next), At(x, curr))
        THEN "minimum"
        ELSE IF ~Less(At(x, curr), At(x, prev)) /\ ~Less(At(x, curr), At(x, next))
        THEN "maximum"
        ELSE "middle"
\* step 3, the branch taken at position i (from 0): the signs of prev_slope
\* and next_slope (a comparison with nan is false)
Step3Kind(it, i, x) ==
    LET prev == it[i]
        curr == it[i + 1]
        next == it[i + 2]
    IN  IF Less(At(x, curr), At(x, prev)) /\ Less(At(x, curr), At(x, next))
        THEN "minimum"
        ELSE IF Less(At(x, prev), At(x, curr)) /\ Less(At(x, next), At(x, curr))
        THEN "maximum"
        ELSE "middle"
\* step 3, one iteration at position i (from 0): a minimum or a maximum
\* moves the point and its two neighbours, a middle point is deleted
Step3(it, i, x) ==
    LET prev == it[i]
        curr == it[i + 1]
        next == it[i + 2]
    IN  IF Step3Kind(it, i, x) = "minimum"
        THEN LET c == ArgMin(x, prev, next)
             IN  [it EXCEPT ![i + 1] = c,
                            ![i] = ArgMax(x, prev, c - 1),
                            ![i + 2] = ArgMax(x, c + 1, next)]
        ELSE IF Step3Kind(it, i, x) = "maximum"
        THEN LET c == ArgMax(x, prev, next)
             IN  [it EXCEPT ![i + 1] = c,
                            ![i] = ArgMin(x, prev, c - 1),
                            ![i + 2] = ArgMin(x, c + 1, next)]
        ELSE Delete(it, i + 1)

\* Step4First that always removes the first point
Step4First_always(it, x) == Delete(it, 1)
\* step 4, the first and the last sample
Step4First(it, x) ==
    IF Near(At(x, it[2]), At(x, it[1]), x) THEN Delete(it, 1) ELSE it
Step4Last(it, x) ==
    IF Len(it) > 1 /\ Near(At(x, it[Len(it)]), At(x, it[Len(it) - 1]), x)
    THEN Delete(it, Len(it)) ELSE it
\* step 4, the internal points: removed when near either neighbour
KeepStep4(it, x) ==
    {k \in 1..Len(it) :
        \/ k = 1 \/ k = Len(it)
        \/ ~(\/ Near(At(x, it[k]), At(x, it[k - 1]), x)
             \/ Near(At(x, it[k + 1]), At(x, it[k]), x))}
Step4(it, x) ==
    LET edges == Step4Last(Step4First(it, x), x)
    IN  Select(edges, KeepStep4(edges, x), 1)

\* np.diff(day_data[i_turning]) without the nan differences
Excursions(it, x) ==
    LET e == [k \in 1..(Len(it) - 1) |->
                IF At(x, it[k]) = NaN \/ At(x, it[k + 1]) = NaN THEN [nan |-> TRUE, v |-> 0]
                ELSE [nan |-> FALSE, v |-> At(x, it[k + 1]) - At(x, it[k])]]
    IN  Select(e, {k \in 1..Len(e) : ~e[k].nan}, 1)
RECURSIVE SumV(_)
SumV(e) == IF e = <<>> THEN 0 ELSE Head(e).v + SumV(Tail(e))
Abs(v) == IF v < 0 THEN -v ELSE v

\* step 5: the result of the day
DayResult(f, it, x) ==
    LET e == Excursions(it, x)
        pos == Select(e, {k \in 1..Len(e) : e[k].v > 0}, 1)
        neg == Select(e, {k \in 1..Len(e) : e[k].v < 0}, 1)
    IN  CASE f = "mage_plus_index" ->
                IF pos = <<>> THEN NaNF ELSE Frac(SumV(pos), Len(pos))
          [] f = "mage_minus_index" ->
                IF neg = <<>> THEN NaNF ELSE Frac(SumV(neg), Len(neg))
          [] f = "ef_index" ->
                Frac(Cardinality({k \in 1..Len(e) : Abs(e[k].v) > EfTh}), 1)

\* the sum of the day results, nan counted as 0
RECURSIVE SumDays(_)
SumDays(r) ==
    IF r = <<>> THEN Frac(0, 1)
    ELSE LET rest == SumDays(Tail(r))
             h == Head(r)
         IN  IF IsNaNF(h) THEN rest
             ELSE Frac(h.num * rest.den + rest.num * h.den, h.den * rest.den)

\* np.mean of the day results with nan set to 0, over n days (ef_index:
\* np.nansum(ef_day) / n_days); mage_minus_index changes the sign
IndexOver(f, r, n) ==
    LET sum == SumDays(r)
    IN  IF f = "mage_minus_index" THEN Frac(-sum.num, sum.den * n)
        ELSE Frac(sum.num, sum.den * n)

\* one of the three functions is called on a series of one or more days
InitMage ==
    /\ fn \in MageFunctions
    /\ days \in MageSeries
    /\ th = 0 /\ period = 5 /\ size = 0 /\ glucose = <<>>
    /\ pc = "mage_day"
    /\ InitScan
    /\ caller = "none" /\ glycemic_target = "diabetes" /\ stage = "none"
    /\ all_events = EmptyEvents /\ l1 = EmptyEvents /\ l2 = EmptyEvents
    /\ time_in = NaNF
    /\ below_events = EmptyEvents
    /\ InitIslandLocals /\ prev_nan = NoPrevNan
    /\ InitMageLocals
    /\ InitRest

\* what the three functions leave alone
mageFrame ==
    <<fn, th, period, size, glucose, raised, scanVars, t, count, flag,
      temp_start_time, resultVars, caller, glycemic_target, stage, all_events,
      l1, l2, time_in, below_events, islandVars, days, restVars>>

\* the data of day d
DayData == days[day_d + 1]

\* a day of the loop: step 1 when the day has more than 3 samples, nan
\* as the result of the day otherwise
MageDay ==
    /\ pc = "mage_day" /\ day_d < Len(days)
    /\ IF Len(DayData) > ShortDay
       THEN /\ i_turning' = Candidates(DayData)
            /\ n_candidates' = Len(Candidates(DayData))
            /\ pc' = "step2"
            /\ UNCHANGED <<day_d, day_results>>
       ELSE /\ day_results' = Append(day_results, NaNF)
            /\ day_d' = day_d + 1
            /\ i_turning' = <<>> /\ n_candidates' = 0
            /\ UNCHANGED pc
    /\ UNCHANGED <<loop_i, index_value, mageFrame>>

\* step 2
MageStep2 ==
    /\ pc = "step2"
    /\ i_turning' = Select(i_turning, KeepStep2(i_turning, DayData), 1)
    /\ loop_i' = 1
    /\ pc' = "step3"
    /\ UNCHANGED <<day_d, n_candidates, day_results, index_value, mageFrame>>

\* step 3: one iteration of `while i < len(i_turning)-1`
MageStep3 ==
    /\ pc = "step3" /\ loop_i < Len(i_turning) - 1
    /\ i_turning' = Step3(i_turning, loop_i, DayData)
    /\ loop_i' = IF Step3Kind(i_turning, loop_i, DayData) = "middle"
                  THEN loop_i ELSE loop_i + 1
    /\ UNCHANGED <<pc, day_d, n_candidates, day_results, index_value, mageFrame>>

\* step 4, once the loop of step 3 has ended
MageStep4 ==
    /\ pc = "step3" /\ ~(loop_i < Len(i_turning) - 1)
    /\ i_turning' = Step4(i_turning, DayData)
    /\ pc' = "step5"
    /\ UNCHANGED <<day_d, n_candidates, loop_i, day_results, index_value, mageFrame>>

\* step 5: the result of the day
MageStep5 ==
    /\ pc = "step5"
    /\ day_results' = Append(day_results, DayResult(fn, i_turning, DayData))
    /\ day_d' = day_d + 1
    /\ pc' = "mage_day"
    /\ UNCHANGED <<i_turning, n_candidates, loop_i, index_value, mageFrame>>

\* after the loop over the days: the index, nan when every sample is nan
MageReturn ==
    /\ pc = "mage_day" /\ day_d = Len(days)
    /\ index_value' =
          IF \A k \in 1..Len(days) : Present(days[k]) = {} THEN NaNF
          ELSE IndexOver(fn, day_results, Len(days))
    /\ pc' = "mage_done"
    /\ UNCHANGED <<day_d, i_turning, n_candidates, loop_i, day_results, mageFrame>>

NextMage ==
    MageDay \/ MageStep2 \/ MageStep3 \/ MageStep4 \/ MageStep5 \/ MageReturn

SpecMage == InitMage /\ [][NextMage]_vars

\* glucose values of a series of one day: one more level than DayValues
OneDayValues == {NaN, 60, 100, 140, 220}
\* one of the three functions is called on a series of one day with more
\* than 3 samples
InitMageDay ==
    /\ fn \in MageFunctions
    /\ days \in {<<x>> : x \in UNION {[1..k -> OneDayValues] :
                                         k \in (ShortDay + 1)..DayLen}}
    /\ th = 0 /\ period = 5 /\ size = 0 /\ glucose = <<>>
    /\ pc = "mage_day"
    /\ InitScan
    /\ caller = "none" /\ glycemic_target = "diabetes" /\ stage = "none"
    /\ all_events = EmptyEvents /\ l1 = EmptyEvents /\ l2 = EmptyEvents
    /\ time_in = NaNF
    /\ below_events = EmptyEvents
    /\ InitIslandLocals /\ prev_nan = NoPrevNan
    /\ InitMageLocals
    /\ InitRest

SpecMageDay == InitMageDay /\ [][NextMage]_vars

\* ------------------------------ the statistical test of compare_two_arms

\* a p-value is a number of thousandths, or nan
\* number of values of a metric in an arm
ArmLen == 4
\* values of a metric
MetricValues == {NaN, 1, 2}
\* p-values lilliefors may return, and p-values a test may return
LillieforsP == {NaN, 10, 200}
TestP == {NaN, 10, 500}
\* the alpha parameter, and the level of the test of normality
Alpha == 50
NormalityLevel == 50
\* least number of values lilliefors is given
LillieforsMin == 4

\* r[~np.isnan(r)].size
PresentCount(r) == Cardinality({i \in 1..Len(r) : r[i] # NaN})
\* `p1 > 0.05 or np.isnan(p1)`
Gaussian(p) == p = NaN \/ p > NormalityLevel
\* the p-value the code takes to `Gaussian`: 0 without a test of normality
NormalityP(r, p) == IF PresentCount(r) >= LillieforsMin THEN p ELSE 0
\* idxs: the indices where both arms have a value
Idxs(a, b) == {i \in 1..Len(a) : a[i] # NaN /\ b[i] # NaN}
\* `np.all(r1[idxs] - r2[idxs]) == 0`: np.all is false when a difference is 0
SkipWilcoxon(a, b) == ~(\A i \in Idxs(a, b) : a[i] - b[i] # 0)
\* the fields p and h of a metric after a test has returned the p-value p
Tested(test, p) ==
    [test |-> test, p |-> p,
     h |-> IF p = NaN THEN NaN ELSE IF p < Alpha THEN 1 ELSE 0]

\* compare_two_arms has the values of one metric in the two arms
InitCompareCall ==
    /\ fn = "compare_two_arms"
    /\ caller = "none"
    /\ th = 0 /\ period = 5 /\ size = 0 /\ glucose = <<>>
    /\ pc = "compare_call"
    /\ InitScan
    /\ glycemic_target = "diabetes" /\ stage = "none"
    /\ all_events = EmptyEvents /\ l1 = EmptyEvents /\ l2 = EmptyEvents
    /\ time_in = NaNF
    /\ below_events = EmptyEvents
    /\ InitIslandLocals /\ prev_nan = NoPrevNan
    /\ days = <<>> /\ InitMageLocals
    /\ time_in_ranges = <<>>
    /\ max_gap = 0 /\ data_imputed = <<>>
    /\ InitWindows
    /\ r1 \in [1..ArmLen -> MetricValues]
    /\ r2 \in [1..ArmLen -> MetricValues]
    /\ is_paired \in BOOLEAN
    /\ lilliefors_p \in
          {<<p1, p2>> : p1 \in (IF PresentCount(r1) >= LillieforsMin THEN LillieforsP ELSE {NaN}),
                        p2 \in (IF PresentCount(r2) >= LillieforsMin THEN LillieforsP ELSE {NaN})}
    /\ stats = NoStats

\* the body of `for m in metric_list_name` for one metric
CompareMetric ==
    /\ pc = "compare_call"
    /\ LET p1 == NormalityP(r1, lilliefors_p[1])
           p2 == NormalityP(r2, lilliefors_p[2])
       IN  IF \/ PresentCount(r1) < LillieforsMin \/ PresentCount(r2) < LillieforsMin
              \/ (Gaussian(p1) /\ Gaussian(p2))
           THEN \E p \in TestP : stats' = Tested("ttest_ind", p)
           ELSE IF is_paired
           THEN IF SkipWilcoxon(r1, r2)
                THEN stats' = [test |-> "none", p |-> 1000, h |-> 0]
                ELSE \E p \in TestP : stats' = Tested("wilcoxon", p)
           ELSE \E p \in TestP : stats' = Tested("mannwhitneyu", p)
    /\ pc' = "compared"
    /\ UNCHANGED <<fn, th, period, size, glucose, raised, scanVars, t, count, flag,
                   temp_start_time, resultVars, caller, glycemic_target, stage, all_events, l1, l2,
                   time_in, below_events, islandVars, mageVars, time_in_ranges,
                   max_gap, data_imputed, windowVars, r1, r2, is_paired,
                   lilliefors_p>>

NextCompare == CompareMetric

SpecCompare == InitCompareCall /\ [][NextCompare]_vars

\* ------------------------- the calendar days of the three functions (step 0)

\* most rows of a series given to the day windows
WindowRows == 4
\* the calendar: the years of the model, the first of them the epoch
Years == {2000, 2001}
MinutesPerDay == 1440
IsLeap(y) == y % 4 = 0 /\ (y % 100 # 0 \/ y % 400 = 0)
DaysInMonth(y, m) ==
    IF m = 2 THEN (IF IsLeap(y) THEN 29 ELSE 28)
    ELSE IF m \in {4, 6, 9, 11} THEN 30 ELSE 31
RECURSIVE DaysBeforeMonth(_, _)
DaysBeforeMonth(y, m) ==
    IF m = 1 THEN 0 ELSE DaysBeforeMonth(y, m - 1) + DaysInMonth(y, m - 1)
DaysBeforeYear(y) == IF y = 2000 THEN 0 ELSE 366
\* the date as a number of days since 2000-01-01
Ordinal(date) ==
    DaysBeforeYear(date.year) + DaysBeforeMonth(date.year, date.month) + date.day - 1
Dates ==
    {date \in [year : Years, month : 1..12, day : 1..31] :
        date.day <= DaysInMonth(date.year, date.month)}
\* the date of a timestamp
DateOf(stamp) == CHOOSE date \in Dates : Ordinal(date) = stamp \div MinutesPerDay

\* data.t of row i (from 0), minutes since 2000-01-01 00:00
Stamp(i) == first_stamp + T(i)

\* dates of the first row, times of day of the first row, and sample periods
FirstDates ==
    {[year |-> 2000, month |-> 1, day |-> 1], [year |-> 2000, month |-> 1, day |-> 30],
     [year |-> 2000, month |-> 1, day |-> 31], [year |-> 2000, month |-> 2, day |-> 28],
     [year |-> 2000, month |-> 6, day |-> 15], [year |-> 2000, month |-> 12, day |-> 31]}
FirstTimes == {0, 12 * 60}
WindowPeriods == {12 * 60, 24 * 60}

\* one of the three functions is called on a series of one row or more
InitDayWindows ==
    /\ fn \in MageFunctions
    /\ caller = "none"
    /\ th = 0
    /\ period \in WindowPeriods
    /\ size \in 1..WindowRows
    /\ glucose = [i \in 1..size |-> 100]
    /\ pc = "windows_call"
    /\ InitScan
    /\ glycemic_target = "diabetes" /\ stage = "none"
    /\ all_events = EmptyEvents /\ l1 = EmptyEvents /\ l2 = EmptyEvents
    /\ time_in = NaNF
    /\ below_events = EmptyEvents
    /\ InitIslandLocals /\ prev_nan = NoPrevNan
    /\ days = <<>> /\ InitMageLocals
    /\ time_in_ranges = <<>>
    /\ max_gap = 0 /\ data_imputed = <<>>
    /\ first_stamp \in {Ordinal(date) * MinutesPerDay + m :
                           date \in FirstDates, m \in FirstTimes}
    /\ window_n_days = 0 /\ day_windows = <<>>
    /\ InitCompare

\* what the day windows leave alone
windowFrame ==
    <<fn, th, period, size, glucose, scanVars, t, count, flag, temp_start_time,
      resultVars, caller, glycemic_target, stage, all_events, l1, l2, time_in,
      below_events, islandVars, days, i_turning, n_candidates, loop_i,
      day_results, index_value, time_in_ranges, max_gap, data_imputed,
      first_stamp, compareVars>>

\* `day=last_day.day + 1` of first_day.replace(...)
LastDay(first, last) == last.day + 1

\* first_day, last_day and n_days: first_day.replace(day=...) raises when
\* the month of first_day has no such day, and np.empty raises for a
\* negative n_days
WindowsCall ==
    /\ pc = "windows_call"
    /\ LET first == DateOf(Stamp(0))
           last == DateOf(Stamp(size - 1))
           day == LastDay(first, last)
           last_day == [year |-> first.year, month |-> first.month, day |-> day]
       IN  IF day > DaysInMonth(first.year, first.month)
           THEN pc' = "raised" /\ raised' = "ValueError" /\ UNCHANGED window_n_days
           ELSE /\ window_n_days' = Ordinal(last_day) - Ordinal(first)
                /\ IF window_n_days' < 0
                   THEN pc' = "raised" /\ raised' = "ValueError"
                   ELSE pc' = "windows_loop" /\ UNCHANGED raised
    /\ UNCHANGED <<day_d, day_windows, windowFrame>>

\* one iteration of `for d in range(0, n_days)`: the rows of day d
\* (first_day + d days <= data.t < first_day + d + 1 days)
WindowStep ==
    /\ pc = "windows_loop" /\ day_d < window_n_days
    /\ LET first_day == Ordinal(DateOf(Stamp(0))) * MinutesPerDay
           low == first_day + day_d * MinutesPerDay
           high == first_day + (day_d + 1) * MinutesPerDay
       IN  day_windows' =
              Append(day_windows, {i \in 0..(size - 1) : low <= Stamp(i) /\ Stamp(i) < high})
    /\ day_d' = day_d + 1
    /\ UNCHANGED <<pc, raised, window_n_days, windowFrame>>

\* the loop over the days has ended
WindowsDone ==
    /\ pc = "windows_loop" /\ day_d = window_n_days
    /\ pc' = "windows_done"
    /\ UNCHANGED <<raised, day_d, window_n_days, day_windows, windowFrame>>

NextDayWindows == WindowsCall \/ WindowStep \/ WindowsDone

SpecDayWindows == InitDayWindows /\ [][NextDayWindows]_vars

\* ------------------------------------------------------------ the claims

\* sample i (counted from 0) is present and strictly beyond the threshold
Beyond(g, i) ==
    /\ g[i + 1] # NaN
    /\ (fn = "hyper" => g[i + 1] > th)
    /\ (fn # "hyper" => g[i + 1] < th)

\* index (from 0) of the sample at which event k starts
StartIdx(k) == time_start[k] \div period

\* the first indices after s of n_samples_out consecutive samples not beyond
\* the threshold
ClosingRuns(s) ==
    {j \in (s + 1)..(Len(glucose) - n_samples_out) :
        /\ n_samples_out >= 1
        /\ \A i \in j..(j + n_samples_out - 1) : ~Beyond(glucose, i)}

\* the last qualifying sample of the event that starts at sample s
LastQualifying(s) ==
    IF ClosingRuns(s) # {} THEN SetMin(ClosingRuns(s)) - 1
    ELSE SetMax({i \in s..(Len(glucose) - 1) : Beyond(glucose, i)})

Returned == pc = "done"
Events == 1..Len(time_start)

\* C1: an event that is entry-confirmed and not closed when the last sample
\* has been processed (flag is 1 or -1 after the loop) is in the returned
\* result exactly once.
C1_OpenEventReturnedOnce ==
    (Returned /\ size > 0 /\ flag # 0)
        => Cardinality({k \in Events : time_start[k] = temp_start_time}) = 1

\* C2: the duration of every returned event is (index of its last qualifying
\* sample - index of its start sample + 1) sample periods.
C2_DurationToLastQualifying ==
    Returned =>
        \A k \in Events :
            duration[k] = (LastQualifying(StartIdx(k)) - StartIdx(k) + 1) * period

\* C3: every returned event has time_end > time_start and a duration of
\* time_end - time_start minutes.
C3_EndAfterStart ==
    Returned =>
        \A k \in Events :
            /\ time_end[k] > time_start[k]
            /\ duration[k] = time_end[k] - time_start[k]

\* C4: returned events do not overlap and are listed with strictly
\* increasing time_start, the event appended after the loop included.
C4_OrderedDisjoint ==
    Returned =>
        \A k \in Events :
            k + 1 \in Events =>
                /\ time_end[k] <= time_start[k + 1]
                /\ time_start[k] < time_start[k + 1]

\* two or more events, the last one appended by the end-of-series handling
C4_Witness ==
    /\ Returned /\ Len(time_start) >= 2 /\ flag # 0
    /\ time_start[Len(time_start)] = temp_start_time

\* C5: every event starts at a sample s that begins a run of at least
\* n_samples_in samples, all present and strictly beyond the threshold, and
\* sample s - 1 is absent or not qualifying.
C5_StartsConfirmedRun ==
    \A k \in Events :
        LET s == StartIdx(k)
        IN  /\ time_start[k] = T(s)
            /\ \A i \in s..(s + n_samples_in - 1) :
                    i < Len(glucose) /\ Beyond(glucose, i)
            /\ s = 0 \/ ~Beyond(glucose, s - 1)

\* C6: a qualifying sample during the exit countdown continues the event:
\* that step emits nothing, keeps the recorded start and returns to the
\* confirmed state; and every event, when it is emitted, starts at the
\* recorded start and is measured to the sample after the last qualifying one.
C6_ReEntryStep ==
    (pc = "loop" /\ flag = -1 /\ t' = t + 1 /\ Beyond(glucose', t'))
        => /\ time_start' = time_start
           /\ temp_start_time' = temp_start_time
           /\ flag' = 1
C6_EmitStep ==
    Len(time_start') > Len(time_start)
        => LET k == Len(time_start')
           IN  /\ k = Len(time_start) + 1
               /\ time_start'[k] = temp_start_time
               /\ end_index'[k] - 1
                    = SetMax({i \in 0..(Len(glucose') - 1) : Beyond(glucose', i)})
C7_EventsPerWeek ==
    (Returned /\ size > 0) =>
        /\ events_per_week.num * T(size - 1)
              = 7 * Len(time_start) * 1440 * events_per_week.den
        /\ NumberDaysOfObservation(size).num * 1440
              = T(size - 1) * NumberDaysOfObservation(size).den

\* C8: an empty series returns no event, nan and nan; a non-empty series
\* without event returns no event, nan and 0, and does not raise.
C8_NoEventResult ==
    /\ (pc # "call" /\ size = 0) =>
          /\ Returned
          /\ time_start = <<>> /\ time_end = <<>> /\ duration = <<>>
          /\ IsNaNF(mean_duration) /\ IsNaNF(events_per_week)
    /\ (pc \in {"done", "raised"} /\ size > 0 /\ time_start = <<>> /\ flag = 0) =>
          /\ Returned
          /\ time_end = <<>> /\ duration = <<>>
          /\ IsNaNF(mean_duration)
          /\ ~IsNaNF(events_per_week) /\ events_per_week.num = 0

\* C9: a series of one sample returns the sentinel result, it does not raise.
C9_SingleSampleSentinel ==
    (size = 1 /\ pc # "call") =>
        /\ Returned
        /\ time_start = <<>> /\ time_end = <<>> /\ duration = <<>>
        /\ IsNaNF(mean_duration)

\* C10: a glycemic_target other than 'diabetes' or 'pregnancy' is rejected
\* with an error and no result is returned, by the time_in_* functions and
\* by the two by-level functions.
C10_UnknownTargetRejected ==
    (caller # "none" /\ glycemic_target \notin {"diabetes", "pregnancy"}) =>
        pc # "target_done"

\* a by-level function has returned its three buckets
LevelReturned == pc = "target_done" /\ caller \in LevelFunctions

\* the all-events episodes that hold a level-2 episode: for each level-2
\* start, the all-events episode with the latest start at or before it
Matched ==
    LET a == all_events.time_start
        AtOrBefore(h) == {i \in 1..Len(a) : a[i] <= l2.time_start[h]}
    IN  {SetMax(AtOrBefore(h)) :
            h \in {h \in 1..Len(l2.time_start) : AtOrBefore(h) # {}}}

\* C11: the 'l1' bucket is the all-events bucket without the episodes
\* matched to a level-2 episode (latest start at or before the level-2
\* start), with start, end and duration unchanged.
C11_L1ExcludesMatched ==
    LevelReturned =>
        /\ l1.time_start = Keep(all_events.time_start, Matched, 1)
        /\ l1.time_end = Keep(all_events.time_end, Matched, 1)
        /\ l1.duration = Keep(all_events.duration, Matched, 1)

\* C12: the span of every level-2 episode lies within the span of some
\* all-events episode.
C12_L2WithinAllEvents ==
    LevelReturned =>
        \A h \in 1..Len(l2.time_start) :
            \E i \in 1..Len(all_events.time_start) :
                /\ all_events.time_start[i] <= l2.time_start[h]
                /\ l2.time_end[h] <= all_events.time_end[i]

\* C13, as stated: the 'l1' and 'l2' buckets together have no more episodes
\* than the all-events bucket.
C13_CountsAtMostAllEvents ==
    LevelReturned =>
        Len(l1.time_start) + Len(l2.time_start) <= Len(all_events.time_start)

\* C13, amended: the 'l1' bucket has no more episodes than the all-events
\* bucket, and at most one all-events episode per level-2 episode is left
\* out of it.
C13_CountsBracketAllEvents ==
    LevelReturned =>
        /\ Len(l1.time_start) <= Len(all_events.time_start)
        /\ Len(all_events.time_start) <= Len(l1.time_start) + Len(l2.time_start)

\* two level-2 episodes inside one all-events episode, which 'l1' leaves out
C13_Witness ==
    /\ LevelReturned
    /\ Len(all_events.time_start) = 1 /\ Len(l2.time_start) = 2
    /\ Len(l1.time_start) = 0
    /\ all_events.time_start[1] < l2.time_start[1]


\* both detectors have returned on the same series
BothReturned == pc = "done" /\ stage = "above"

\* minutes between the first and the last sample
Elapsed == IF size = 0 THEN 0 ELSE T(size - 1) - T(0)

\* no instant is in a below-threshold and in an above-threshold episode
NoInstantInBoth ==
    \A b \in 1..Len(below_events.time_start) :
        \A a \in Events :
            \/ below_events.time_end[b] <= time_start[a]
            \/ time_end[a] <= below_events.time_start[b]

\* C14, as stated: the durations of the episodes below th and above th sum
\* to no more than the time between the first and the last sample, and no
\* instant is in an episode of each direction.
C14_BothDirectionsWithinElapsed ==
    BothReturned =>
        /\ SumSeq(below_events.duration) + SumSeq(duration) <= Elapsed
        /\ NoInstantInBoth

\* C14, amended: the durations sum to no more than the time between the first
\* and the last sample plus one sample period, and no instant is in an
\* episode of each direction.
C14_BothDirectionsWithinSeries ==
    BothReturned =>
        /\ SumSeq(below_events.duration) + SumSeq(duration) <= Elapsed + period
        /\ NoInstantInBoth

\* episodes in both directions that fill the series, the last one open at
\* the last sample
C14_Witness ==
    /\ BothReturned
    /\ Len(below_events.time_start) >= 1 /\ Len(time_start) >= 1
    /\ SumSeq(below_events.duration) + SumSeq(duration) = Elapsed + period

\* C15, as stated: no episode ends later than the last sample.
C15_EndWithinSamples ==
    Returned => \A k \in Events : time_end[k] <= T(size - 1)

\* C15, amended: no episode ends later than one sample period after the last
\* sample, and only an episode still qualifying at the last sample ends
\* after the last sample.
C15_EndWithinOnePeriod ==
    Returned =>
        \A k \in Events :
            /\ time_end[k] <= T(size - 1) + period
            /\ time_end[k] > T(size - 1) => (k = Len(time_start) /\ flag = 1)

\* an episode still qualifying at the last sample, after an earlier episode:
\* it ends one sample period after the last sample
C15_Witness ==
    /\ Returned /\ Len(time_start) >= 2 /\ flag = 1
    /\ time_end[Len(time_start)] = T(size - 1) + period


\* find_nan_islands has returned
IslandsReturned == pc = "island_done"

\* the indices (from 0) of the missing samples
Missing == {k \in 0..(size - 1) : glucose[k + 1] = NaN}
\* the elements of a sequence
Elems(q) == {q[k] : k \in 1..Len(q)}
\* a sequence without repeated element
NoRepeat(q) == Cardinality(Elems(q)) = Len(q)
\* first..last is a maximal run of missing samples
MaximalRun(first, last) ==
    /\ first <= last
    /\ \A k \in first..last : k \in Missing
    /\ first - 1 \notin Missing /\ last + 1 \notin Missing
\* the islands: the pairs nan_start[k], nan_end[k]
Islands == 1..Len(nan_start)

\* C16: nan_start and nan_end have the same length, their pairs are the
\* maximal runs of missing samples in increasing order, and the short and
\* long index sets are disjoint and together hold every missing index once.
C16_IslandsPartitionMissing ==
    IslandsReturned =>
        /\ Len(nan_start) = Len(nan_end)
        /\ \A k \in Islands : MaximalRun(nan_start[k], nan_end[k])
        /\ \A k \in Islands : k + 1 \in Islands => nan_end[k] + 1 < nan_start[k + 1]
        /\ \A m \in Missing : \E k \in Islands : nan_start[k] <= m /\ m <= nan_end[k]
        /\ Elems(short_nan) \cap Elems(long_nan) = {}
        /\ Elems(short_nan) \cup Elems(long_nan) = Missing
        /\ NoRepeat(short_nan) /\ NoRepeat(long_nan)

\* three islands, short and long ones among them
C16_Witness ==
    /\ IslandsReturned /\ Len(nan_start) >= 3
    /\ short_nan # <<>> /\ long_nan # <<>>

\* C17: an island of length L is in the long set when L >= th and in the
\* short set when L < th; so th <= 1 makes every island long, no missing
\* sample gives four empty outputs, an entirely missing series gives one
\* island, and a larger th only moves indices from long to short.
C17_ClassifiedByLength ==
    IslandsReturned =>
        /\ \A k \in Islands :
              LET L == nan_end[k] - nan_start[k] + 1
                  In(q) == \A m \in nan_start[k]..nan_end[k] : m \in Elems(q)
              IN  /\ L >= th => In(long_nan)
                  /\ L < th => In(short_nan)
        /\ th <= 1 => short_nan = <<>>
        /\ (\A k \in Islands : nan_end[k] - nan_start[k] + 1 < th) => long_nan = <<>>
        /\ Missing = {} =>
              short_nan = <<>> /\ long_nan = <<>> /\ nan_start = <<>> /\ nan_end = <<>>
        /\ (size > 0 /\ Cardinality(Missing) = size) =>
              nan_start = <<0>> /\ nan_end = <<size - 1>>
        /\ prev_nan.called =>
              /\ Elems(long_nan) \subseteq Elems(prev_nan.long_nan)
              /\ Elems(prev_nan.short_nan) \subseteq Elems(short_nan)

\* a second call with a larger th that moved an island from long to short,
\* and an island whose length is the threshold
C17_Witness ==
    /\ IslandsReturned /\ prev_nan.called
    /\ Elems(long_nan) # Elems(prev_nan.long_nan)
    /\ long_nan # <<>>
    /\ \E k \in Islands : nan_end[k] - nan_start[k] + 1 = th


\* the last element of a sequence
Last(q) == q[Len(q)]
\* the index of the last sample of the day
LastOfDay == Len(DayData) - 1

\* C18: the final turning-point list of a day with more than 3 samples is
\* strictly increasing, holds only indices of the day, and is no longer than
\* the list of step 1.
C18_TurningPointsReduced ==
    pc = "step5" =>
        /\ \A k \in 1..(Len(i_turning) - 1) : i_turning[k] < i_turning[k + 1]
        /\ \A k \in 1..Len(i_turning) : i_turning[k] \in 0..LastOfDay
        /\ Len(i_turning) <= n_candidates

\* a final list of three or more points, shorter than the list of step 1,
\* with a point that step 3 moved
C18_Witness ==
    /\ pc = "step5" /\ Len(i_turning) >= 3 /\ Len(i_turning) < n_candidates
    /\ \E k \in 1..Len(i_turning) : i_turning[k] \notin Elems(Candidates(DayData))

\* the edge pruning of step 4 removes the first point of list q; the last
\* point of what is left of q
NearFirst(q) == Near(At(DayData, q[2]), At(DayData, q[1]), DayData)
NearLast(q) ==
    LET r == IF NearFirst(q) THEN Tail(q) ELSE q
    IN  Len(r) > 1 /\ Near(At(DayData, r[Len(r)]), At(DayData, r[Len(r) - 1]), DayData)

\* C19, as stated: steps 2 and 3 leave index 0 first and index n-1 last in
\* the list, and the final list holds index 0 (index n-1) unless the edge
\* pruning of step 4 removed it.
C19_Steps2And3 ==
    (pc = "step2" \/ (pc = "step3" /\ pc' = "step3")) =>
        /\ Head(i_turning') = 0
        /\ Last(i_turning') = LastOfDay
C19_Step4 ==
    (pc = "step3" /\ pc' = "step5") =>
        /\ 0 \in Elems(i_turning') \/ NearFirst(i_turning)
        /\ LastOfDay \in Elems(i_turning') \/ NearLast(i_turning)
C19_EndpointsKept == [][C19_Steps2And3 /\ C19_Step4]_vars

\* C19, amended: step 2 leaves index 0 first and index n-1 last; step 3
\* never deletes the first or the last point, it moves the first one only
\* forward and the last one only backward, in the iteration next to it; and
\* the final list holds the first (last) point that step 3 left unless the
\* edge pruning of step 4 removed it.
C19_Step2Kept ==
    pc = "step2" =>
        /\ Head(i_turning') = 0
        /\ Last(i_turning') = LastOfDay
C19_Step3Moved ==
    (pc = "step3" /\ pc' = "step3") =>
        /\ Len(i_turning') >= 2
        /\ Head(i_turning') # Head(i_turning) =>
              /\ loop_i = 1 /\ Len(i_turning') = Len(i_turning)
              /\ Head(i_turning) < Head(i_turning')
              /\ Head(i_turning') < i_turning'[2]
        /\ Last(i_turning') # Last(i_turning) =>
              /\ loop_i = Len(i_turning) - 2 /\ Len(i_turning') = Len(i_turning)
              /\ Last(i_turning') < Last(i_turning)
              /\ i_turning'[Len(i_turning') - 1] < Last(i_turning')
C19_Step4Pruned ==
    (pc = "step3" /\ pc' = "step5") =>
        /\ Head(i_turning) \in Elems(i_turning') \/ NearFirst(i_turning)
        /\ Last(i_turning) \in Elems(i_turning') \/ NearLast(i_turning)
C19_EndpointsKeptOrMoved ==
    [][C19_Step2Kept /\ C19_Step3Moved /\ C19_Step4Pruned]_vars

\* step 3 has moved the first point of the list away from index 0, and the
\* final list starts with it
C19_Witness ==
    /\ pc = "step5" /\ i_turning # <<>>
    /\ Head(i_turning) # 0
    /\ ~Near(At(DayData, Head(i_turning)), At(DayData, 0), DayData)
    /\ Head(i_turning) \notin Elems(Candidates(DayData))

\* the days of the series with more than 3 samples
LongDaysOf == {k \in 1..Len(days) : Len(days[k]) > ShortDay}

\* C20: a day with 3 or fewer samples has no turning point and nan as its
\* result, and the index is the one of the days with more than 3 samples.
C20_ShortDaysExcluded ==
    /\ (pc = "mage_day" /\ day_d > 0 /\ Len(days[day_d]) <= ShortDay) =>
          /\ i_turning = <<>>
          /\ IsNaNF(day_results[day_d])
    /\ (pc = "mage_done" /\ ~IsNaNF(index_value) /\ LongDaysOf # {}) =>
          FracEq(index_value,
                 IndexOver(fn, Select(day_results, LongDaysOf, 1),
                           Cardinality(LongDaysOf)))

\* C21: on the test's series with events, the extended detector with the
\* default threshold returns exactly one episode, starting at sample 33
\* (02:45, minute 165), lasting 150 minutes and ending at 05:15 (minute
\* 315), with mean_duration 150 and events_per_week 24.
C21_FixtureEpisode ==
    (pc = "done" /\ glucose = EventsFixture /\ th = DefaultTh("ext")) =>
        /\ time_start = <<T(33)>>
        /\ T(33) = 2 * 60 + 45
        /\ duration = <<150>>
        /\ time_end = <<5 * 60 + 15>>
        /\ FracEq(mean_duration, Frac(150, 1))
        /\ FracEq(events_per_week, Frac(24, 1))

\* the detector has returned on that series, with an episode
C21_Witness ==
    /\ pc = "done" /\ glucose = EventsFixture /\ th = DefaultTh("ext")
    /\ fn = "ext" /\ n_samples_in = 24 /\ n_samples_out = 3
    /\ Len(time_start) = 1

\* results['time_in_ranges'][name] of a returned profile
TimeIn(name) ==
    time_in_ranges[CHOOSE k \in 1..Len(ProfileMetrics) : ProfileMetrics[k] = name]
\* the samples of the series that are not missing, and the ones a function counts
Values == {i \in 1..size : glucose[i] # NaN}
Counted(name) ==
    {i \in Values : InRange(glucose[i], TimeInThresholds(name, glycemic_target))}
\* every sample of set S is in exactly one of the sets A and B
ExactlyOne(S, A, B) == A \cup B = S /\ A \cap B = {}
\* the sum of the percentages of functions a, b over the same samples
SumIs(a, b, c) ==
    TimeIn(a).num + TimeIn(b).num = TimeIn(c).num /\ TimeIn(a).den = TimeIn(c).den
       /\ TimeIn(b).den = TimeIn(c).den

\* C22: for both glycemic targets and every series with a non-missing
\* sample, each non-missing sample is counted by exactly one of hypoglycemia,
\* target and hyperglycemia (the three percentages sum to 100), each
\* hypoglycemic sample by exactly one of l1 and l2 hypoglycemia, and each
\* hyperglycemic sample by exactly one of l1 and l2 hyperglycemia.
C22_RangesPartition ==
    (pc = "profile_done" /\ Values # {}) =>
        /\ ExactlyOne(Values \ Counted("time_in_target"),
                      Counted("time_in_hypoglycemia"), Counted("time_in_hyperglycemia"))
        /\ TimeIn("time_in_hypoglycemia").num + TimeIn("time_in_target").num
              + TimeIn("time_in_hyperglycemia").num = 100 * Cardinality(Values)
        /\ \A k \in 1..Len(ProfileMetrics) :
              time_in_ranges[k].den = Cardinality(Values)
        /\ ExactlyOne(Counted("time_in_hypoglycemia"),
                      Counted("time_in_l1_hypoglycemia"), Counted("time_in_l2_hypoglycemia"))
        /\ SumIs("time_in_l1_hypoglycemia", "time_in_l2_hypoglycemia",
                 "time_in_hypoglycemia")
        /\ ExactlyOne(Counted("time_in_hyperglycemia"),
                      Counted("time_in_l1_hyperglycemia"), Counted("time_in_l2_hyperglycemia"))
        /\ SumIs("time_in_l1_hyperglycemia", "time_in_l2_hyperglycemia",
                 "time_in_hyperglycemia")

\* a returned profile of the pregnancy target with a sample on the border of
\* the target range and a sample on the border of the two levels
C22_Witness ==
    /\ pc = "profile_done" /\ glycemic_target = "pregnancy"
    /\ \E i \in Values : glucose[i] \in {63, 140}
    /\ \E i \in Values : glucose[i] \in {54, 250}

\* C23: impute_glucose does not raise, and in what it returns every missing
\* sample of a gap of at most max_gap minutes (the gap's number of samples
\* times the sample time) has a value, wherever the gap lies; the samples of
\* longer gaps stay missing, and the other samples are unchanged.
C23_GapsImputed ==
    caller = "impute_glucose" =>
        /\ pc # "raised"
        /\ pc = "impute_done" =>
              /\ Len(data_imputed) = size
              /\ \A k \in 0..(size - 1) :
                    glucose[k + 1] # NaN =>
                        (~IsNaNF(data_imputed[k + 1])
                           /\ FracEq(data_imputed[k + 1], Frac(glucose[k + 1], 1)))
              /\ \A first \in 0..(size - 1) : \A last \in first..(size - 1) :
                    MaximalRun(first, last) =>
                        \A k \in first..last :
                            IsNaNF(data_imputed[k + 1])
                                <=> (last - first + 1) * sample_time > max_gap

\* the iterations the loop of step 3 has left at most
Step3Left == Len(i_turning) - 1 - loop_i
\* the loop of step 3 has an iteration to run
Step3Pending == pc = "step3" /\ loop_i < Len(i_turning) - 1

\* C24: the loop of step 3 terminates for every day: a pending iteration
\* changes the position or the list, each iteration either advances the scan
\* position by one and keeps the list, or keeps the position and removes one
\* point from the list, and so the number of iterations left, which is
\* never negative, decreases.
C24_Step3Iteration ==
    (pc = "step3" /\ pc' = "step3") =>
        /\ \/ loop_i' = loop_i + 1 /\ Len(i_turning') = Len(i_turning)
           \/ loop_i' = loop_i /\ Len(i_turning') = Len(i_turning) - 1
        /\ Step3Left' < Step3Left /\ Step3Left' >= 0
C24_Step3Terminates ==
    /\ [](Step3Pending => ENABLED <<MageStep3>>_vars)
    /\ [][C24_Step3Iteration]_vars

\* on a day with a missing value the loop has advanced and is about to
\* remove a point
C24_Witness ==
    /\ Step3Pending /\ loop_i >= 2
    /\ Step3Kind(i_turning, loop_i, DayData) = "middle"
    /\ \E k \in 1..Len(DayData) : DayData[k] = NaN

\* point k of list q is near the point before it, and near the point after it
NearPrev(q, k) == Near(At(DayData, q[k]), At(DayData, q[k - 1]), DayData)
NearNext(q, k) == Near(At(DayData, q[k + 1]), At(DayData, q[k]), DayData)
\* list q, of which list r is what a pass has left: its first and last
\* points are in r, and an interior point is in r unless drop holds of it
Dropped(q, r, drop(_)) ==
    /\ Elems(r) \subseteq Elems(q)
    /\ \A k \in 1..Len(q) :
          q[k] \in Elems(r) <=> (k = 1 \/ k = Len(q) \/ ~drop(k))
\* the list the edge pruning of step 4 hands to the pass on the internal points
AfterEdges == Step4Last(Step4First(i_turning, DayData), DayData)

\* C25: step 2 drops an interior point exactly when its absolute difference
\* from both its neighbours in the list is below std_within, the last pass
\* (the internal points of step 4) drops an interior point exactly when its
\* absolute difference from at least one neighbour is below std_within, and
\* neither drops the first or the last point of its list.
C25_Step2 ==
    pc = "step2" =>
        LET both(k) == NearPrev(i_turning, k) /\ NearNext(i_turning, k)
        IN  Dropped(i_turning, i_turning', both)
C25_InternalPoints ==
    (pc = "step3" /\ pc' = "step5") =>
        LET either(k) == NearPrev(AfterEdges, k) \/ NearNext(AfterEdges, k)
        IN  Dropped(AfterEdges, i_turning', either)
C25_SignificancePasses == [][C25_Step2 /\ C25_InternalPoints]_vars

\* a candidate near exactly one of its neighbours, which step 2 has kept, is
\* an interior point of the list given to the last pass, near exactly one of
\* its neighbours there
C25_Witness ==
    /\ pc = "step3" /\ ~Step3Pending
    /\ \E k \in 2..(Len(AfterEdges) - 1) :
          /\ NearPrev(AfterEdges, k) # NearNext(AfterEdges, k)
          /\ \E j \in 2..(n_candidates - 1) :
                /\ Candidates(DayData)[j] = AfterEdges[k]
                /\ NearPrev(Candidates(DayData), j) # NearNext(Candidates(DayData), j)

\* C26: for any series the three functions split the rows into calendar days
\* whose number is the number of calendar dates from the date of the first
\* row to the date of the last row, both included, also across a month or
\* year boundary, and every row is in exactly one of the windows.
C26_CalendarDays ==
    pc \in {"windows_loop", "windows_done", "raised"} =>
        /\ pc # "raised"
        /\ window_n_days = Ordinal(DateOf(Stamp(size - 1))) - Ordinal(DateOf(Stamp(0))) + 1
        /\ pc = "windows_done" =>
              \A i \in 0..(size - 1) :
                  Cardinality({d \in 1..Len(day_windows) : i \in day_windows[d]}) = 1

\* the series with every value that is not nan negated
Negated(g) == [i \in DOMAIN g |-> IF g[i] = NaN THEN NaN ELSE 0 - g[i]]
\* the locals of one detector before its loop
ScanStart ==
    [count |-> 0, flag |-> 0, temp_start_time |-> -1, time_start |-> <<>>,
     duration |-> <<>>]
\* one iteration of the loop of a detector on sample v at index i, written
\* as the statements of the loop body; `below` is the direction of the
\* comparison with the threshold h
ScanSample(below, s, i, v, h, n_in, n_out) ==
    LET q == v # NaN /\ (IF below THEN v < h ELSE v > h)
        fresh == q /\ s.count <= 0
        start == IF fresh THEN T(i) ELSE s.temp_start_time
        c0 == IF fresh THEN 0 ELSE s.count
        c == IF q THEN (IF n_in < c0 + 1 THEN n_in ELSE c0 + 1)
             ELSE IF s.flag = 0 /\ s.count > 0 THEN 0 - 1
             ELSE IF s.flag = 1 THEN n_out - 1
             ELSE s.count - 1
        fl == IF q THEN (IF c = n_in \/ s.flag = -1 THEN 1 ELSE s.flag)
              ELSE IF s.flag = 0 /\ s.count > 0 THEN s.flag
              ELSE IF s.flag = 1 THEN -1
              ELSE s.flag
        emit == c = 0 /\ fl = -1
    IN  [count |-> c, flag |-> IF emit THEN 0 ELSE fl, temp_start_time |-> start,
         time_start |-> IF emit THEN Append(s.time_start, start) ELSE s.time_start,
         duration |-> IF emit
                      THEN Append(s.duration, MinutesTo(i - (n_out - 1), start))
                      ELSE s.duration]
\* the locals after the first k iterations on the series g
RECURSIVE Scan(_, _, _, _, _, _)
Scan(below, g, h, n_in, n_out, k) ==
    IF k = 0 THEN ScanStart
    ELSE ScanSample(below, Scan(below, g, h, n_in, n_out, k - 1), k - 1, g[k],
                    h, n_in, n_out)
\* what a detector returns on the series g of two samples or more
Outcome(below, g, h, n_in, n_out) ==
    LET s == Scan(below, g, h, n_in, n_out, Len(g))
        last == Len(g) - 1
        open == s.count > 0 /\ s.flag = -1
        running == s.count = n_in /\ s.flag = 1
        starts == IF open \/ running THEN Append(s.time_start, s.temp_start_time)
                  ELSE s.time_start
        durations ==
            IF open
            THEN Append(s.duration,
                        MinutesTo(last - (n_out - s.count - 1), s.temp_start_time))
            ELSE IF running
            THEN Append(s.duration,
                        MinutesTo(last, s.temp_start_time) + Seconds(T(1) - T(0)) \div 60)
            ELSE s.duration
        n_days == NumberDaysOfObservation(Len(g))
    IN  [time_start |-> starts, duration |-> durations,
         time_end |-> [k \in 1..Len(starts) |-> starts[k] + durations[k]],
         mean_duration |-> MeanDuration(durations),
         events_per_week |-> Frac(Len(starts) * n_days.den * 7, n_days.num)]
\* what the detector of this run has returned
ReturnedNow ==
    [time_start |-> time_start, duration |-> duration, time_end |-> time_end,
     mean_duration |-> mean_duration, events_per_week |-> events_per_week]

C28_SampleCountsPositive ==
    (pc = "loop" \/ (pc = "done" /\ size >= 2)) =>
        /\ n_samples_in = RoundHalfEven(EntryMinutes(fn), sample_time)
        /\ n_samples_out = RoundHalfEven(ExitMinutes(fn), sample_time)
        /\ n_samples_in >= 1
        /\ n_samples_out >= 1

\* C29: for every metric compare_two_arms chooses the test as documented: a
\* t-test when both arms are Gaussian (Lilliefors), the Wilcoxon rank test
\* when is_paired and an arm is not Gaussian, the Mann-Whitney U-test when
\* not is_paired and an arm is not Gaussian; the reported p is the p-value
\* of the chosen test and h is 1 exactly when p < alpha.  (Stated for the arms
\* lilliefors is run on.)
C29_TestAsDocumented ==
    (pc = "compared" /\ PresentCount(r1) >= LillieforsMin /\ PresentCount(r2) >= LillieforsMin) =>
        /\ stats.test =
              IF Gaussian(lilliefors_p[1]) /\ Gaussian(lilliefors_p[2]) THEN "ttest_ind"
              ELSE IF is_paired THEN "wilcoxon"
              ELSE "mannwhitneyu"
        /\ stats.p \in TestP
        /\ stats.h = 1 <=> (stats.p # NaN /\ stats.p < Alpha)

\* the slice x[lo:hi + 1] is not empty and has a value that is not nan
HasValue(x, lo, hi) == \E k \in lo..hi : At(x, k) # NaN
\* the index step 3 moves the current point to
Relocated ==
    IF Step3Kind(i_turning, loop_i, DayData) = "minimum"
    THEN ArgMin(DayData, i_turning[loop_i], i_turning[loop_i + 2])
    ELSE ArgMax(DayData, i_turning[loop_i], i_turning[loop_i + 2])

\* C30: on a day of more than 3 samples (missing values, constant values, a
\* single value that is not missing included) steps 3 and 4 do not fail:
\* every search of an extremum in step 3 is over a slice that is not empty and
\* has a value that is not nan, the index the current point is moved to is
\* strictly between its neighbours, and two candidates or more are left when
\* step 4 reads the first two.
C30_Steps3And4Run ==
    /\ pc = "step3" =>
          /\ Len(i_turning) >= 2
          /\ \A k \in 1..Len(i_turning) :
                /\ i_turning[k] \in 0..(Len(DayData) - 1)
                /\ k > 1 => i_turning[k - 1] < i_turning[k]
    /\ (Step3Pending /\ Step3Kind(i_turning, loop_i, DayData) # "middle") =>
          /\ HasValue(DayData, i_turning[loop_i], i_turning[loop_i + 2])
          /\ i_turning[loop_i] < Relocated
          /\ Relocated < i_turning[loop_i + 2]
          /\ HasValue(DayData, i_turning[loop_i], Relocated - 1)
          /\ HasValue(DayData, Relocated + 1, i_turning[loop_i + 2])
\* step 3 is about to search the extrema around a maximum, in slices that
\* hold a missing value
C30_Witness ==
    /\ Step3Pending
    /\ Step3Kind(i_turning, loop_i, DayData) = "maximum"
    /\ \E k \in i_turning[loop_i]..i_turning[loop_i + 2] : At(DayData, k) = NaN

====
